---------------------------- MODULE Spec2Model ----------------------------
(***************************************************************************)
(* Livestock health / identification engine (health_analyzer.py,           *)
(* identification.py).                                                     *)
(*                                                                         *)
(* The engine's operations are functions of one image (and optional        *)
(* vitals, pose keypoints, known identifiers).  An image enters the model  *)
(* as the bundle of measurements OpenCV derives from it; every operation   *)
(* is an operator translated from its Python source, and every action      *)
(* performs one call and records its arguments and its return value.       *)
(*                                                                         *)
(* Units.  Python floats are kept as scaled integers:                      *)
(*   circularity, solidity, texture_smoothness, asymmetry_score,           *)
(*   edge_density, red_percentage, lameness_score and the health           *)
(*   analyzer's confidences: hundredths (0.35 is 35);                      *)
(*   identification confidences: millionths (0.95 is 950000), which makes  *)
(*   0.5 + area/50000 * 0.35 = 500000 + 7 * area exact;                    *)
(*   cosine similarity and its threshold: thousandths, rounded down.       *)
(***************************************************************************)
EXTENDS Integers, Sequences, FiniteSets, TLC

VARIABLES
    op,     \* the operation that ran last ("none" after construction)
    args,   \* the arguments of that call
    ret     \* the value it returned

vars == <<op, args, ret>>

\* Optional values: None is the empty tuple, a present value x is <<x>>.
None == <<>>
Some(x) == <<x>>

Min(a, b) == IF a <= b THEN a ELSE b
Max(a, b) == IF a >= b THEN a ELSE b
Abs(a) == IF a >= 0 THEN a ELSE -a

\* dict.get(key, default) on a record
Get(d, key, default) == IF key \in DOMAIN d THEN d[key] ELSE default

(***************************************************************************)
(* HealthAnalyzer.__init__                                                 *)
(***************************************************************************)
body_condition_thresholds ==
    [s \in 1..5 |->
        CASE s = 1 -> "Emaciated - Immediate attention required"
          [] s = 2 -> "Thin - Needs nutritional support"
          [] s = 3 -> "Moderate - Acceptable condition"
          [] s = 4 -> "Good - Optimal health"
          [] s = 5 -> "Obese - Risk of health issues"]

(***************************************************************************)
(* HealthAnalyzer.analyze_body_condition_score                             *)
(*                                                                         *)
(* Sub-scores are in tenths (4.5 is 45), weights in hundredths, so the     *)
(* weighted sum is in thousandths.                                         *)
(***************************************************************************)
circularity_score(circularity) ==
    IF circularity > 70 THEN 45
    ELSE IF circularity > 60 THEN 40
    ELSE IF circularity > 50 THEN 35
    ELSE IF circularity > 40 THEN 30
    ELSE IF circularity > 30 THEN 28
    ELSE 20

circularity_confidence(circularity) ==
    IF circularity > 70 THEN 35
    ELSE IF circularity > 60 THEN 32
    ELSE IF circularity > 50 THEN 30
    ELSE IF circularity > 40 THEN 25
    ELSE IF circularity > 30 THEN 22
    ELSE 18

texture_score(texture_smoothness) ==
    IF texture_smoothness > 75 THEN 45
    ELSE IF texture_smoothness > 60 THEN 35
    ELSE IF texture_smoothness > 45 THEN 30
    ELSE 20

texture_confidence(texture_smoothness) ==
    IF texture_smoothness > 75 THEN 30
    ELSE IF texture_smoothness > 60 THEN 28
    ELSE IF texture_smoothness > 45 THEN 25
    ELSE 20

solidity_score(solidity) ==
    IF solidity > 85 THEN 40
    ELSE IF solidity > 75 THEN 35
    ELSE IF solidity > 65 THEN 30
    ELSE 25

solidity_confidence(solidity) ==
    IF solidity > 85 THEN 20
    ELSE IF solidity > 75 THEN 18
    ELSE IF solidity > 65 THEN 16
    ELSE 14

\* Variant: the third comparison turned round (`> 100` for `< 100`).
brightness_score_wrong_side(brightness_mean) ==
    IF brightness_mean > 160 THEN 40
    ELSE IF brightness_mean > 140 THEN 35
    ELSE IF brightness_mean > 100 THEN 25
    ELSE IF brightness_mean < 80 THEN 20
    ELSE 30

\* The `< 80` branch follows the `< 100` branch, as in the source.
brightness_score(brightness_mean) ==
    IF brightness_mean > 160 THEN 40
    ELSE IF brightness_mean > 140 THEN 35
    ELSE IF brightness_mean < 100 THEN 25
    ELSE IF brightness_mean < 80 THEN 20
    ELSE 30

\* Variant: brightness weighted 0.25, the weights summing to 1.10.
weighted_score_overweight(c, t, s, b) == c * 35 + t * 30 + s * 20 + b * 25

\* score = c*0.35 + t*0.30 + s*0.20 + b*0.15, in thousandths
weighted_score(c, t, s, b) == c * 35 + t * 30 + s * 20 + b * 15

(***************************************************************************)
(* The sum is accumulated in IEEE doubles.  For these sub-score tuples     *)
(* <<c, t, s, b>> the exact sum is 3.5 and the accumulated double is       *)
(* 3.4999999999999996 (3.499999999999999 for the third), so round() sees   *)
(* a value below the tie; for every other tuple of the table the double    *)
(* rounds as the exact sum does.                                           *)
(***************************************************************************)
FloatBelowTie ==
    { <<45, 30, 25, 35>>, <<45, 20, 40, 35>>, <<30, 45, 40, 20>>,
      <<30, 45, 25, 40>>, <<30, 35, 40, 40>> }

\* Variant: truncation, int() without round().
round_clip_truncating(score, below_tie) == Max(1000, Min(5000, score)) \div 1000

\* int(round(np.clip(score, 1, 5))): round half to even
round_clip(score, below_tie) ==
    LET clipped == Max(1000, Min(5000, score))
        q == clipped \div 1000
        r == clipped % 1000
    IN  IF r > 500 \/ (r = 500 /\ ~below_tie /\ q % 2 = 1) THEN q + 1 ELSE q

\* Variant: the early return with the confidence of an ordinary result.
no_contour_result_confident ==
    [score |-> 3, confidence |-> 50, assessment |-> "Insufficient data"]

\* the return of `if not contours`
no_contour_result ==
    [score |-> 3, confidence |-> 30, assessment |-> "Insufficient data"]

\* the return of the except clause
analysis_failed_result ==
    [score |-> 3, confidence |-> 20,
     assessment |-> "Analysis failed - manual inspection required"]

analyze_body_condition_score(image) ==
    IF image.malformed THEN analysis_failed_result
    ELSE IF ~image.has_contour THEN no_contour_result
    ELSE
    LET circularity == image.circularity
        solidity == image.solidity
        brightness_mean == IF image.has_body_pixels THEN image.brightness_mean ELSE 128
        texture_smoothness ==
            IF image.has_body_pixels THEN image.texture_smoothness ELSE 50
        c == circularity_score(circularity)
        t == texture_score(texture_smoothness)
        s == solidity_score(solidity)
        b == brightness_score(brightness_mean)
        score == weighted_score(c, t, s, b)
        confidence == circularity_confidence(circularity)
                        + texture_confidence(texture_smoothness)
                        + solidity_confidence(solidity) + 15
        bcs == round_clip(score, <<c, t, s, b>> \in FloatBelowTie)
    IN  [score |-> bcs,
         confidence |-> Min(95, confidence),
         assessment |-> body_condition_thresholds[bcs],
         metrics |-> [circularity |-> circularity,
                      solidity |-> solidity,
                      texture_smoothness |-> texture_smoothness,
                      brightness_mean |-> brightness_mean]]

(***************************************************************************)
(* HealthAnalyzer._analyze_lameness_from_pose                              *)
(*                                                                         *)
(* keypoints is the list's length; variation is np.std of the leg metrics, *)
(* which the source draws with np.random.random(): an input here.          *)
(***************************************************************************)
\* Variant: the full pose result without its 'affected_limb' key.
_analyze_lameness_from_pose_no_limb(keypoints, variation) ==
    IF keypoints < 10
    THEN [detected |-> FALSE, confidence |-> 40,
          recommendation |-> "Insufficient pose data for lameness assessment"]
    ELSE [detected |-> variation > 20,
          confidence |-> 80,
          severity |-> IF variation > 30 THEN "moderate" ELSE "mild",
          recommendation |->
              IF variation > 20
              THEN "Abnormal gait pattern detected via pose analysis"
              ELSE "Normal gait pattern"]

_analyze_lameness_from_pose(keypoints, variation) ==
    IF keypoints < 10
    THEN [detected |-> FALSE, confidence |-> 40,
          recommendation |-> "Insufficient pose data for lameness assessment"]
    ELSE
    LET leg_metrics == Min(4, keypoints \div 3)
        lameness_detected == variation > 20
    IN  IF leg_metrics >= 2
        THEN [detected |-> lameness_detected,
              confidence |-> 80,
              severity |-> IF variation > 30 THEN "moderate" ELSE "mild",
              affected_limb |-> "Pose-based analysis",
              recommendation |->
                  IF lameness_detected
                  THEN "Abnormal gait pattern detected via pose analysis"
                  ELSE "Normal gait pattern"]
        ELSE [detected |-> FALSE, confidence |-> 0]

(***************************************************************************)
(* HealthAnalyzer.detect_lameness                                          *)
(***************************************************************************)
\* Variant: the mild bucket adds 0.30 instead of 0.25.
asymmetry_points_mild_thirty(asymmetry_score) ==
    IF asymmetry_score > 35 THEN 40
    ELSE IF asymmetry_score > 25 THEN 35
    ELSE IF asymmetry_score > 18 THEN 30
    ELSE 0

asymmetry_points(asymmetry_score) ==
    IF asymmetry_score > 35 THEN 40
    ELSE IF asymmetry_score > 25 THEN 35
    ELSE IF asymmetry_score > 18 THEN 25
    ELSE 0

asymmetry_severity(asymmetry_score) ==
    IF asymmetry_score > 35 THEN "severe"
    ELSE IF asymmetry_score > 25 THEN "moderate"
    ELSE IF asymmetry_score > 18 THEN "mild"
    ELSE "none"

\* activity_diff = |l - r| / max(l, r, 1), compared without dividing
activity_points(left_activity, right_activity) ==
    LET num == 100 * Abs(left_activity - right_activity)
        den == Max(Max(left_activity, right_activity), 1)
    IN  IF num > 25 * den THEN 35
        ELSE IF num > 15 * den THEN 25
        ELSE 0

\* abs(edge_density - 0.15) is a double: for 0.27 it is 0.12000000000000002,
\* above the 0.12 it is compared with; on every other hundredth the double
\* compares as the exact difference does.
posture_points(edge_density) ==
    LET posture_deviation == Abs(edge_density - 15)
    IN  IF posture_deviation > 20 THEN 25
        ELSE IF posture_deviation > 12 \/ edge_density = 27 THEN 15
        ELSE 0

\* Variant: `>=` for `>` at the detection threshold.
is_lameness_detected_inclusive(lameness_score) == lameness_score >= 25

\* lameness_detected = lameness_score > 0.25
is_lameness_detected(lameness_score) == lameness_score > 25

\* Variant: the cap of 0.90 left out.
lameness_confidence_uncapped(lameness_detected, lameness_score) ==
    IF lameness_detected THEN lameness_score + 20 ELSE 35

\* confidence = min(0.90, lameness_score + 0.20) if lameness_detected else 0.35
lameness_confidence(lameness_detected, lameness_score) ==
    IF lameness_detected THEN Min(90, lameness_score + 20) ELSE 35

detect_lameness(image, pose_keypoints, variation) ==
    IF pose_keypoints # None /\ pose_keypoints[1] > 0
    THEN _analyze_lameness_from_pose(pose_keypoints[1], variation)
    ELSE IF image.malformed
    THEN [detected |-> FALSE, confidence |-> 0,
          recommendation |-> "Unable to assess - manual observation required"]
    ELSE
    LET left_activity == image.left_activity
        right_activity == image.right_activity
        severity == asymmetry_severity(image.asymmetry_score)
        lameness_score == asymmetry_points(image.asymmetry_score)
                            + activity_points(left_activity, right_activity)
                            + posture_points(image.edge_density)
        affected_limb ==
            IF lameness_score > 30
            THEN IF 100 * left_activity < 85 * right_activity
                 THEN "Left side (probable)"
                 ELSE IF 100 * right_activity < 85 * left_activity
                 THEN "Right side (probable)"
                 ELSE "Both sides or hind legs"
            ELSE "Unknown - video analysis recommended"
        lameness_detected == is_lameness_detected(lameness_score)
    IN  [detected |-> lameness_detected,
         confidence |-> lameness_confidence(lameness_detected, lameness_score),
         severity |-> severity,
         lameness_score |-> lameness_score,
         affected_limb |-> affected_limb,
         asymmetry_score |-> image.asymmetry_score,
         activity_difference |->
             (100 * Abs(left_activity - right_activity))
                 \div Max(Max(left_activity, right_activity), 1),
         recommendation |->
             IF lameness_detected
             THEN <<severity, "lameness detected - Conduct gait analysis and veterinary examination">>
             ELSE <<"No significant lameness detected from static image">>]

(***************************************************************************)
(* HealthAnalyzer.detect_visible_symptoms                                  *)
(*                                                                         *)
(* Each detector yields the records it appends: none or one.               *)
(***************************************************************************)
lesion_records(dark_spots_count) ==
    IF dark_spots_count > 40
    THEN << [type |-> "severe_lesions",
             description |-> "Multiple significant dark spots detected - possible severe skin lesions or mange",
             severity |-> "severe", confidence |-> 75, count |-> dark_spots_count] >>
    ELSE IF dark_spots_count > 25
    THEN << [type |-> "moderate_lesions",
             description |-> "Several dark spots detected - possible skin lesions or parasitic infection",
             severity |-> "moderate", confidence |-> 68, count |-> dark_spots_count] >>
    ELSE << >>

inflammation_records(red_percentage) ==
    IF red_percentage > 50
    THEN << [type |-> "severe_inflammation",
             description |-> "Significant redness detected - possible severe inflammation, fever, or infection",
             severity |-> "severe", confidence |-> 78, percentage |-> red_percentage] >>
    ELSE IF red_percentage > 40
    THEN << [type |-> "moderate_inflammation",
             description |-> "Moderate redness detected - possible inflammation or mild fever",
             severity |-> "moderate", confidence |-> 70, percentage |-> red_percentage] >>
    ELSE << >>

discharge_records(discharge_area) ==
    IF discharge_area > 8000
    THEN << [type |-> "significant_discharge",
             description |-> "Significant bright areas in head region - likely eye/nasal discharge",
             severity |-> "moderate", confidence |-> 65, area |-> discharge_area] >>
    ELSE IF discharge_area > 5000
    THEN << [type |-> "possible_discharge",
             description |-> "Bright areas detected in head region - possible eye/nasal discharge",
             severity |-> "mild", confidence |-> 58, area |-> discharge_area] >>
    ELSE << >>

\* Variant: two `if`s for the `if` / `elif`.
coat_records_both(texture_std) ==
    (IF texture_std < 15
     THEN << [type |-> "poor_coat",
              description |-> "Dull or very poor coat quality - may indicate malnutrition or illness",
              severity |-> "moderate", confidence |-> 72, texture_score |-> texture_std] >>
     ELSE << >>)
    \o (IF texture_std < 20
        THEN << [type |-> "fair_coat",
                 description |-> "Somewhat dull coat quality - monitor nutrition",
                 severity |-> "mild", confidence |-> 62, texture_score |-> texture_std] >>
        ELSE << >>)

coat_records(texture_std) ==
    IF texture_std < 15
    THEN << [type |-> "poor_coat",
             description |-> "Dull or very poor coat quality - may indicate malnutrition or illness",
             severity |-> "moderate", confidence |-> 72, texture_score |-> texture_std] >>
    ELSE IF texture_std < 20
    THEN << [type |-> "fair_coat",
             description |-> "Somewhat dull coat quality - monitor nutrition",
             severity |-> "mild", confidence |-> 62, texture_score |-> texture_std] >>
    ELSE << >>

\* Variant: the ranks of mild and moderate exchanged.
severity_rank_mild_first(x) ==
    CASE x = "severe" -> 3 [] x = "moderate" -> 1 [] x = "mild" -> 2 [] x = "none" -> 0

severity_rank(x) ==
    CASE x = "severe" -> 3 [] x = "moderate" -> 2 [] x = "mild" -> 1 [] x = "none" -> 0

\* max(..., default='none', key=rank): the first of the highest rank
highest_severity_of(symptoms) ==
    IF symptoms = << >> THEN "none"
    ELSE LET i == CHOOSE i \in 1..Len(symptoms) :
                    /\ \A j \in 1..Len(symptoms) :
                          severity_rank(symptoms[j].severity)
                              <= severity_rank(symptoms[i].severity)
                    /\ \A j \in 1..(i - 1) :
                          severity_rank(symptoms[j].severity)
                              < severity_rank(symptoms[i].severity)
         IN  symptoms[i].severity

detect_visible_symptoms(image) ==
    LET symptoms ==
            IF image.malformed THEN << >>
            ELSE lesion_records(image.dark_spots_count)
                   \o inflammation_records(image.red_percentage)
                   \o discharge_records(image.discharge_area)
                   \o coat_records(image.texture_std)
    IN  [symptoms |-> symptoms,
         total_detected |-> Len(symptoms),
         requires_attention |->
             \E i \in 1..Len(symptoms) : symptoms[i].severity \in {"moderate", "severe"},
         highest_severity |-> highest_severity_of(symptoms)]

(***************************************************************************)
(* HealthAnalyzer._assess_vitals                                           *)
(*                                                                         *)
(* body_temperature_c is in tenths of a degree; the other readings are     *)
(* whole numbers.  A reading is None or Some(value).                       *)
(***************************************************************************)
vital_names ==
    << "body_temperature_c", "heart_rate_bpm", "respiratory_rate_bpm", "weight_kg" >>

normal_ranges ==
    [body_temperature_c |-> <<380, 395>>,
     heart_rate_bpm |-> <<48, 84>>,
     respiratory_rate_bpm |-> <<10, 30>>,
     weight_kg |-> <<200, 800>>]

\* Variant: `<=` and `>=` for `<` and `>`.
vital_alerts_inclusive(vitals, vital) ==
    LET value == Get(vitals, vital, None)
        low == normal_ranges[vital][1]
        high == normal_ranges[vital][2]
    IN  IF value = None THEN << >>
        ELSE IF value[1] <= low
        THEN << <<vital, value[1], "is below normal range", low, high>> >>
        ELSE IF value[1] >= high
        THEN << <<vital, value[1], "is above normal range", low, high>> >>
        ELSE << >>

vital_alerts(vitals, vital) ==
    LET value == Get(vitals, vital, None)
        low == normal_ranges[vital][1]
        high == normal_ranges[vital][2]
    IN  IF value = None THEN << >>
        ELSE IF value[1] < low
        THEN << <<vital, value[1], "is below normal range", low, high>> >>
        ELSE IF value[1] > high
        THEN << <<vital, value[1], "is above normal range", low, high>> >>
        ELSE << >>

vital_notes(vitals, vital) ==
    LET value == Get(vitals, vital, None)
        low == normal_ranges[vital][1]
        high == normal_ranges[vital][2]
    IN  IF value = None THEN << >>
        ELSE IF value[1] < low \/ value[1] > high THEN << >>
        ELSE << <<vital, value[1], "is within normal range">> >>

_assess_vitals(vitals) ==
    [alerts |-> vital_alerts(vitals, vital_names[1]) \o vital_alerts(vitals, vital_names[2])
                  \o vital_alerts(vitals, vital_names[3]) \o vital_alerts(vitals, vital_names[4]),
     notes |-> vital_notes(vitals, vital_names[1]) \o vital_notes(vitals, vital_names[2])
                 \o vital_notes(vitals, vital_names[3]) \o vital_notes(vitals, vital_names[4])]

(***************************************************************************)
(* HealthAnalyzer.comprehensive_health_assessment                          *)
(*                                                                         *)
(* An f-string is kept as the tuple of its parts.  vitals is None or       *)
(* Some(dict).                                                             *)
(***************************************************************************)
EmptyDict == [k \in {} |-> None]

bcs_alerts(bcs_result) ==
    IF bcs_result.score <= 2
    THEN << <<"CRITICAL: Poor body condition - nutritional intervention required">> >>
    ELSE IF bcs_result.score >= 5
    THEN << <<"WARNING: Obesity detected - reduce feed and increase exercise">> >>
    ELSE << >>

bcs_recommendations(bcs_result) ==
    IF bcs_result.score <= 2
    THEN << "Increase feed quality and quantity immediately" >>
    ELSE << >>

\* lameness_result['affected_limb'] is indexed, not fetched with .get()
lameness_raises(lameness_result) ==
    lameness_result.detected /\ "affected_limb" \notin DOMAIN lameness_result

lameness_alerts(lameness_result) ==
    IF lameness_result.detected
    THEN << <<"LAMENESS DETECTED:", lameness_result.affected_limb>> >>
    ELSE << >>

lameness_recommendations(lameness_result) ==
    IF lameness_result.detected
    THEN << "Schedule immediate hoof inspection and veterinary examination" >>
    ELSE << >>

RECURSIVE symptom_alerts(_)
symptom_alerts(symptoms) ==
    IF symptoms = << >> THEN << >>
    ELSE (IF Head(symptoms).severity \in {"moderate", "severe"}
          THEN << <<Head(symptoms).description>> >>
          ELSE << >>) \o symptom_alerts(Tail(symptoms))

vitals_supplied(vitals) == vitals # None /\ DOMAIN vitals[1] # {}

bcs_adjustment(score) ==
    IF score \in {3, 4} THEN 15
    ELSE IF score = 2 THEN -10
    ELSE IF score = 5 THEN -8
    ELSE IF score = 1 THEN -35
    ELSE 0

lameness_penalty(lameness_result) ==
    IF lameness_result.detected
    THEN LET severity == Get(lameness_result, "severity", "mild")
         IN  IF severity = "severe" THEN 25
             ELSE IF severity = "moderate" THEN 12
             ELSE 5
    ELSE 0

\* Variant: a moderate record charged as a mild one.
symptom_penalty_moderate_as_mild(symptom) ==
    IF Get(symptom, "severity", "absent") = "severe" THEN 20 ELSE 2

symptom_penalty(symptom) ==
    IF Get(symptom, "severity", "absent") = "severe" THEN 20
    ELSE IF Get(symptom, "severity", "absent") = "moderate" THEN 10
    ELSE 2

RECURSIVE symptoms_penalty(_)
symptoms_penalty(symptoms) ==
    IF symptoms = << >> THEN 0
    ELSE symptom_penalty(Head(symptoms)) + symptoms_penalty(Tail(symptoms))

\* health_score before it is clamped
health_score_sum(bcs_result, lameness_result, symptoms_result) ==
    85 + bcs_adjustment(bcs_result.score)
       - lameness_penalty(lameness_result)
       - symptoms_penalty(symptoms_result.symptoms)

\* Variant: the lower clamp left out.
clamp_score_no_floor(health_score) == Min(100, health_score)

clamp_score(health_score) == Max(0, Min(100, health_score))

\* Variant: `>` for `>=` at the Healthy threshold.
overall_status_of_strict(health_score) ==
    IF health_score > 80 THEN "Healthy"
    ELSE IF health_score >= 60 THEN "Fair - Monitor Closely"
    ELSE IF health_score >= 40 THEN "Poor - Intervention Needed"
    ELSE "Critical - Immediate Attention Required"

overall_status_of(health_score) ==
    IF health_score >= 80 THEN "Healthy"
    ELSE IF health_score >= 60 THEN "Fair - Monitor Closely"
    ELSE IF health_score >= 40 THEN "Poor - Intervention Needed"
    ELSE "Critical - Immediate Attention Required"

\* Variant: the healthy note decided on an alerts list that always looks empty.
general_recommendations_unconditional(alerts) ==
    << "Animal appears healthy - continue routine monitoring",
       "Document in daily attendance and health log" >>

\* `if not assessment['alerts']` and the append that follows it
general_recommendations(alerts) ==
    (IF alerts = << >>
     THEN << "Animal appears healthy - continue routine monitoring" >>
     ELSE << >>)
        \o << "Document in daily attendance and health log" >>

\* The assessment once health_score (unclamped) is known.
assessment_record(bcs_result, lameness_result, symptoms_result, vitals, health_score) ==
    LET vitals_assessment ==
            IF vitals_supplied(vitals) THEN _assess_vitals(vitals[1]) ELSE EmptyDict
        alerts == bcs_alerts(bcs_result)
                    \o lameness_alerts(lameness_result)
                    \o (IF symptoms_result.requires_attention
                        THEN symptom_alerts(symptoms_result.symptoms) ELSE << >>)
                    \o Get(vitals_assessment, "alerts", << >>)
        recommendations == bcs_recommendations(bcs_result)
                             \o lameness_recommendations(lameness_result)
                             \o general_recommendations(alerts)
    IN  [timestamp |-> None,
         overall_status |-> overall_status_of(health_score),
         health_score |-> clamp_score(health_score),
         body_condition |-> bcs_result,
         lameness |-> lameness_result,
         symptoms |-> symptoms_result,
         vitals_analysis |-> vitals_assessment,
         alerts |-> alerts,
         recommendations |-> recommendations]

\* Variant: every vitals alert also costs five points.
fuse_vitals_scored(bcs_result, lameness_result, symptoms_result, vitals) ==
    IF lameness_raises(lameness_result)
    THEN [raised |-> "KeyError: 'affected_limb'"]
    ELSE assessment_record(bcs_result, lameness_result, symptoms_result, vitals,
            health_score_sum(bcs_result, lameness_result, symptoms_result)
              - (IF vitals_supplied(vitals)
                 THEN 5 * Len(_assess_vitals(vitals[1]).alerts) ELSE 0))

\* comprehensive_health_assessment from its three analyzer results on
fuse(bcs_result, lameness_result, symptoms_result, vitals) ==
    IF lameness_raises(lameness_result)
    THEN [raised |-> "KeyError: 'affected_limb'"]
    ELSE assessment_record(bcs_result, lameness_result, symptoms_result, vitals,
            health_score_sum(bcs_result, lameness_result, symptoms_result))

comprehensive_health_assessment(image, pose_keypoints, variation, vitals) ==
    fuse(analyze_body_condition_score(image),
         detect_lameness(image, pose_keypoints, variation),
         detect_visible_symptoms(image),
         vitals)

(***************************************************************************)
(* Images.  An image is the bundle of measurements the analyzers derive    *)
(* from it with OpenCV; malformed is an image cv2.cvtColor rejects, which  *)
(* every analyzer meets on its first line.                                 *)
(***************************************************************************)
Image(body, gait, skin) ==
    [malformed |-> FALSE,
     has_contour |-> body.has_contour,
     has_body_pixels |-> body.has_body_pixels,
     circularity |-> body.circularity,
     solidity |-> body.solidity,
     brightness_mean |-> body.brightness_mean,
     texture_smoothness |-> body.texture_smoothness,
     asymmetry_score |-> gait.asymmetry_score,
     left_activity |-> gait.left_activity,
     right_activity |-> gait.right_activity,
     edge_density |-> gait.edge_density,
     dark_spots_count |-> skin.dark_spots_count,
     red_percentage |-> skin.red_percentage,
     discharge_area |-> skin.discharge_area,
     texture_std |-> skin.texture_std]

Body(has_contour, has_body_pixels, circularity, solidity, texture_smoothness, brightness_mean) ==
    [has_contour |-> has_contour, has_body_pixels |-> has_body_pixels,
     circularity |-> circularity, solidity |-> solidity,
     texture_smoothness |-> texture_smoothness, brightness_mean |-> brightness_mean]

NoContour == Body(FALSE, FALSE, 0, 0, 0, 0)

NeutralGait ==
    [asymmetry_score |-> 10, left_activity |-> 50, right_activity |-> 50, edge_density |-> 15]

ClearSkin ==
    [dark_spots_count |-> 9, red_percentage |-> 22, discharge_area |-> 2200, texture_std |-> 30]

MalformedImage == [Image(NoContour, NeutralGait, ClearSkin) EXCEPT !.malformed = TRUE]

\* Bodies met by the fusion: no contour, an empty body mask, and one body
\* for each score the table yields (2, then 3 by a tuple of FloatBelowTie,
\* then 4).
FusionBodies ==
    { NoContour,
      Body(TRUE, FALSE, 50, 80, 0, 0),
      Body(TRUE, TRUE, 20, 60, 30, 90),
      Body(TRUE, TRUE, 75, 60, 50, 150),
      Body(TRUE, TRUE, 72, 85, 68, 145) }

\* Every asymmetry bucket, activity bucket (with the side it points to) and
\* posture bucket.
Gaits ==
    { [asymmetry_score |-> a, left_activity |-> lr[1], right_activity |-> lr[2],
       edge_density |-> e] :
        a \in {10, 20, 30, 40},
        lr \in { <<50, 50>>, <<42, 50>>, <<50, 30>> },
        e \in {15, 30, 40} }

\* Every bucket of each of the four symptom detectors.
Skins ==
    { [dark_spots_count |-> d, red_percentage |-> r, discharge_area |-> h,
       texture_std |-> t] :
        d \in {9, 30, 45}, r \in {22, 45, 55}, h \in {2200, 6000, 9000},
        t \in {12, 18, 30} }

\* pose_keypoints (None or Some(length)) with the variation drawn for it.
\* The visual path reads the image's gait; the pose path does not.
PoseCases ==
    { <<None, 0>>, <<Some(5), 0>>,
      <<Some(12), 10>>, <<Some(12), 25>>, <<Some(12), 35>> }

PoseRead(pose) == pose[1] # None /\ pose[1][1] > 0

VitalsDict(t, h, r, w) ==
    [body_temperature_c |-> t, heart_rate_bpm |-> h,
     respiratory_rate_bpm |-> r, weight_kg |-> w]

\* Not passed, empty, all readings null, all within range, and a mix of a
\* low, a boundary, a high and a null reading.
VitalsCases ==
    { None,
      Some(EmptyDict),
      Some(VitalsDict(None, None, None, None)),
      Some(VitalsDict(Some(385), Some(60), Some(20), Some(500))),
      Some(VitalsDict(Some(379), Some(84), Some(31), None)) }

(***************************************************************************)
(* State machine.  The engine keeps nothing between calls: a caller makes  *)
(* one call from the idle state, reads what it returned, and is idle       *)
(* again.                                                                  *)
(***************************************************************************)
Init ==
    /\ op = "none"
    /\ args = << >>
    /\ ret = << >>

Return ==
    /\ op # "none"
    /\ op' = "none"
    /\ args' = << >>
    /\ ret' = << >>

CallComprehensiveHealthAssessment ==
    /\ op = "none"
    /\ \E pose \in PoseCases, vitals \in VitalsCases :
         \E image \in { Image(b, g, k) :
                          b \in FusionBodies,
                          g \in IF PoseRead(pose) THEN {NeutralGait} ELSE Gaits,
                          k \in Skins } \cup {MalformedImage} :
            /\ op' = "comprehensive_health_assessment"
            /\ args' = [image |-> image, pose_keypoints |-> pose[1],
                        variation |-> pose[2], vitals |-> vitals]
            /\ ret' = comprehensive_health_assessment(image, pose[1], pose[2], vitals)

NextFusion == CallComprehensiveHealthAssessment \/ Return

SpecFusion == Init /\ [][NextFusion]_vars

(***************************************************************************)
(* Properties of comprehensive_health_assessment (SpecFusion)              *)
(***************************************************************************)
Assessed == op = "comprehensive_health_assessment"

\* The unclamped sum of the assessment just returned.
ReturnedSum == health_score_sum(ret.body_condition, ret.lameness, ret.symptoms)

CountSeverity(symptoms, severity) ==
    Cardinality({ i \in 1..Len(symptoms) : symptoms[i].severity = severity })

\* C1: whatever the analyzers return and whatever vitals are passed, the
\* health_score of the returned assessment lies in [0, 100].
C1_HealthScoreInRange ==
    Assessed => /\ "health_score" \in DOMAIN ret
                /\ ret.health_score >= 0
                /\ ret.health_score <= 100

\* An assessment whose adjustments sum below zero, returned with score 0.
C1_Witness ==
    /\ Assessed
    /\ ReturnedSum < 0
    /\ ret.health_score = 0

\* C2: health_score = clamp(85 + BCS adjustment + lameness adjustment - sum
\* of the symptom penalties, 0, 100); the BCS adjustment is +15 for 3 or 4,
\* -10 for 2, -8 for 5, -35 for 1; the lameness adjustment is -25 / -12 / -5
\* when lameness is detected; each symptom record costs 20 (severe), 10
\* (moderate) or 2 (mild), every record counted.
C2_FusionFormula ==
    Assessed =>
        LET score == ret.body_condition.score
            bcs == CASE score \in {3, 4} -> 15
                     [] score = 2 -> -10
                     [] score = 5 -> -8
                     [] score = 1 -> -35
            sev == Get(ret.lameness, "severity", "mild")
            lame == IF ~ret.lameness.detected THEN 0
                    ELSE IF sev = "severe" THEN -25
                    ELSE IF sev = "moderate" THEN -12
                    ELSE -5
            recs == ret.symptoms.symptoms
            pen == 20 * CountSeverity(recs, "severe")
                     + 10 * CountSeverity(recs, "moderate")
                     + 2 * CountSeverity(recs, "mild")
            total == 85 + bcs + lame - pen
        IN  /\ ret.health_score =
                  (IF total < 0 THEN 0 ELSE IF total > 100 THEN 100 ELSE total)
            \* the rows for scores 1 and 5, which no analyzer result reaches
            /\ bcs_adjustment(1) = -35
            /\ bcs_adjustment(5) = -8

\* A thin animal with detected lameness and two severe records plus a
\* moderate one: every adjustment is at work and nothing is clamped away.
C2_Witness ==
    /\ Assessed
    /\ ret.body_condition.score = 2
    /\ ret.lameness.detected
    /\ CountSeverity(ret.symptoms.symptoms, "severe") = 2
    /\ CountSeverity(ret.symptoms.symptoms, "moderate") >= 1
    /\ ret.health_score > 0

\* C3: overall_status is the bucket of the returned (clamped) health_score:
\* Healthy from 80, Fair from 60, Poor from 40, Critical below; never
\* "Unknown", also when the unclamped sum is outside [0, 100].
C3_StatusMatchesScore ==
    Assessed =>
        /\ ret.overall_status # "Unknown"
        /\ ret.overall_status =
              (IF ret.health_score >= 80 THEN "Healthy"
               ELSE IF ret.health_score >= 60 THEN "Fair - Monitor Closely"
               ELSE IF ret.health_score >= 40 THEN "Poor - Intervention Needed"
               ELSE "Critical - Immediate Attention Required")

\* The status was taken from a sum below zero, the score from its clamp.
C3_Witness ==
    /\ Assessed
    /\ ReturnedSum < 0
    /\ ret.health_score = 0
    /\ ret.overall_status = "Critical - Immediate Attention Required"

\* C4: for the same analyzer results, the assessment made with any vitals
\* has the health_score and overall_status of the one made with no vitals;
\* the vitals only append their alerts and fill vitals_analysis (and, through
\* the alerts, withhold the "appears healthy" recommendation).
C4_VitalsLeaveScore ==
    Assessed =>
        LET without == fuse(ret.body_condition, ret.lameness, ret.symptoms, None)
            vitals_alerts == Get(ret.vitals_analysis, "alerts", << >>)
            IsAdvice(x) == x # "Animal appears healthy - continue routine monitoring"
        IN  /\ ret.health_score = without.health_score
            /\ ret.overall_status = without.overall_status
            /\ ret.alerts = without.alerts \o vitals_alerts
            /\ ret.recommendations =
                  (IF vitals_alerts = << >> THEN without.recommendations
                   ELSE SelectSeq(without.recommendations, IsAdvice))
            /\ without.vitals_analysis = EmptyDict

\* Vitals with out-of-range readings were passed and raised alerts.
C4_Witness ==
    /\ Assessed
    /\ args.vitals # None
    /\ Len(Get(ret.vitals_analysis, "alerts", << >>)) >= 2
    /\ ret.health_score = 100

(***************************************************************************)
(* identification.py.  Confidences are in millionths.                      *)
(*                                                                         *)
(* For identification an image is: malformed (cv2.cvtColor / decode        *)
(* reject it), pyzbar_available (the module flag PYZBAR_AVAILABLE), codes  *)
(* (the payloads pyzbar.decode yields, in order), contours (the contours   *)
(* of the four colour masks in the order the loops visit them, each with   *)
(* its colour, area and bounding box), face ("cascade", "orb" or "none":   *)
(* which branch of extract_facial_features finds something) and muzzle     *)
(* (the muzzle crop is not empty).                                         *)
(***************************************************************************)
Take(s, n) == SubSeq(s, 1, Min(n, Len(s)))

\* AnimalIdentifier.detect_qr_codes
RECURSIVE decoded_codes(_)
decoded_codes(codes) ==
    IF codes = << >> THEN << >>
    ELSE << [type |-> "QRCODE", data |-> Head(codes), bbox |-> <<0, 0, 10, 10>>,
             confidence |-> 950000] >> \o decoded_codes(Tail(codes))

detect_qr_codes(image) ==
    IF ~image.pyzbar_available THEN << >>
    ELSE IF image.malformed THEN << >>
    ELSE decoded_codes(image.codes)

\* AnimalIdentifier.detect_ear_tags
color_names == << "yellow", "orange", "green", "blue" >>

tag_confidence(area) == Min(850000, 500000 + 7 * area)

\* aspect_ratio = w / h if h > 0 else 0, and 0.5 < aspect_ratio < 3.0
aspect_ok(w, h) == h > 0 /\ 2 * w > h /\ w < 3 * h

RECURSIVE tag_candidates(_)
tag_candidates(contours) ==
    IF contours = << >> THEN << >>
    ELSE LET c == Head(contours)
         IN  (IF 500 < c.area /\ c.area < 50000 /\ aspect_ok(c.w, c.h)
              THEN << [color |-> c.color, bbox |-> <<c.x, c.y, c.w, c.h>>,
                       area |-> c.area, confidence |-> tag_confidence(c.area)] >>
              ELSE << >>) \o tag_candidates(Tail(contours))

\* sorted(..., key=confidence, reverse=True): stable
RECURSIVE insert_by_confidence(_, _)
insert_by_confidence(sorted, x) ==
    IF sorted = << >> THEN << x >>
    ELSE IF Head(sorted).confidence >= x.confidence
    THEN << Head(sorted) >> \o insert_by_confidence(Tail(sorted), x)
    ELSE << x >> \o sorted

RECURSIVE sorted_by_confidence(_)
sorted_by_confidence(tags) ==
    IF tags = << >> THEN << >>
    ELSE insert_by_confidence(sorted_by_confidence(Take(tags, Len(tags) - 1)),
                              tags[Len(tags)])

\* Variant: the candidates returned in loop order, the sort left out.
detect_ear_tags_unsorted(image) ==
    IF image.malformed THEN << >>
    ELSE Take(tag_candidates(image.contours), 3)

detect_ear_tags(image) ==
    IF image.malformed THEN << >>
    ELSE Take(sorted_by_confidence(tag_candidates(image.contours)), 3)

\* AnimalIdentifier.extract_facial_features
extract_facial_features(image) ==
    IF image.malformed THEN None
    ELSE IF image.face = "cascade"
    THEN Some([bbox |-> <<0, 0, 10, 10>>, feature_vector |-> <<1, 0>>,
               confidence |-> 750000, method |-> "facial_detection"])
    ELSE IF image.face = "orb"
    THEN Some([bbox |-> <<0, 0, 10, 10>>, feature_vector |-> <<1, 1, 1, 1>>,
               keypoint_count |-> 1, confidence |-> 650000, method |-> "orb_features"])
    ELSE None

\* AnimalIdentifier.extract_muzzle_pattern
extract_muzzle_pattern(image) ==
    IF image.malformed \/ ~image.muzzle THEN None
    ELSE Some([feature_vector |-> <<1, 0>>, edge_density |-> 10,
               texture_complexity |-> 10, confidence |-> 700000,
               method |-> "muzzle_pattern"])

\* identify_animal, step 1: QR codes
check_qr_codes(results, qr_codes) ==
    IF qr_codes # << >>
    THEN [results EXCEPT
            !.qr_codes = qr_codes,
            !.confidence_score = Max(results.confidence_score, qr_codes[1].confidence),
            !.primary_method = Some("qr_code"),
            !.detected_identifiers = @ @@ ("qr_id" :> qr_codes[1].data)]
    ELSE [results EXCEPT !.qr_codes = qr_codes]

\* Variant: step 2 without its `and not qr_codes`.
check_ear_tags_unguarded(results, ear_tags) ==
    IF ear_tags # << >>
    THEN [results EXCEPT
            !.ear_tags = ear_tags,
            !.confidence_score = Max(results.confidence_score, ear_tags[1].confidence),
            !.primary_method = Some("ear_tag"),
            !.detected_identifiers = @ @@ ("ear_tag_color" :> ear_tags[1].color)]
    ELSE [results EXCEPT !.ear_tags = ear_tags]

\* identify_animal, step 2: ear tags (results.qr_codes is qr_codes)
check_ear_tags(results, ear_tags) ==
    IF ear_tags # << >> /\ results.qr_codes = << >>
    THEN [results EXCEPT
            !.ear_tags = ear_tags,
            !.confidence_score = Max(results.confidence_score, ear_tags[1].confidence),
            !.primary_method = Some("ear_tag"),
            !.detected_identifiers = @ @@ ("ear_tag_color" :> ear_tags[1].color)]
    ELSE [results EXCEPT !.ear_tags = ear_tags]

\* identify_animal, step 3: facial features
check_facial_features(results, facial_features) ==
    IF facial_features # None /\ results.primary_method = None
    THEN [results EXCEPT
            !.facial_features = facial_features,
            !.confidence_score = Max(results.confidence_score, facial_features[1].confidence),
            !.primary_method = Some("facial_biometric")]
    ELSE [results EXCEPT !.facial_features = facial_features]

\* identify_animal, step 4: muzzle pattern
check_muzzle_pattern(results, muzzle_pattern) ==
    IF muzzle_pattern # None /\ results.primary_method = None
    THEN [results EXCEPT
            !.muzzle_pattern = muzzle_pattern,
            !.confidence_score = Max(results.confidence_score, muzzle_pattern[1].confidence),
            !.primary_method = Some("muzzle_biometric")]
    ELSE [results EXCEPT !.muzzle_pattern = muzzle_pattern]

\* Variant: only the first decoded code is compared.
known_match_first_only(qr_codes, known_identifiers) ==
    /\ known_identifiers # None
    /\ DOMAIN known_identifiers[1] # {}
    /\ Get(known_identifiers[1], "qr_id", None) \notin {None, Some("")}
    /\ qr_codes # << >>
    /\ qr_codes[1].data = known_identifiers[1].qr_id[1]

\* Step 5: a known qr_id (truthy) equals the data of a decoded code.
known_match(qr_codes, known_identifiers) ==
    /\ known_identifiers # None
    /\ DOMAIN known_identifiers[1] # {}
    /\ Get(known_identifiers[1], "qr_id", None) \notin {None, Some("")}
    /\ qr_codes # << >>
    /\ \E i \in 1..Len(qr_codes) : qr_codes[i].data = known_identifiers[1].qr_id[1]

\* AnimalIdentifier.identify_animal
identify_animal(image, known_identifiers) ==
    LET initial == [qr_codes |-> << >>,
                    ear_tags |-> << >>,
                    facial_features |-> None,
                    muzzle_pattern |-> None,
                    confidence_score |-> 0,
                    primary_method |-> None,
                    detected_identifiers |-> EmptyDict]
        results ==
            check_muzzle_pattern(
              check_facial_features(
                check_ear_tags(
                  check_qr_codes(initial, detect_qr_codes(image)),
                  detect_ear_tags(image)),
                extract_facial_features(image)),
              extract_muzzle_pattern(image))
    IN  IF known_match(results.qr_codes, known_identifiers)
        THEN [results EXCEPT !.confidence_score = 980000] @@ ("matched" :> TRUE)
        ELSE results

(***************************************************************************)
(* Inputs of identify_animal                                               *)
(***************************************************************************)
MaxCodes == 2       \* decoded codes in one image
MaxContours == 2    \* colour-mask contours in one image

RECURSIVE SeqsUpTo(_, _)
SeqsUpTo(S, n) ==
    IF n = 0 THEN { << >> }
    ELSE LET shorter == SeqsUpTo(S, n - 1)
         IN  shorter \cup { Append(q, x) : q \in shorter, x \in S }

Payloads == { "A", "B" }

\* A small and a large tag, a contour too tall to be a tag, one too large.
ContourCases ==
    { [color |-> 1, area |-> 1000, x |-> 0, y |-> 0, w |-> 20, h |-> 20],
      [color |-> 2, area |-> 2000, x |-> 0, y |-> 0, w |-> 10, h |-> 40],
      [color |-> 3, area |-> 45000, x |-> 0, y |-> 0, w |-> 30, h |-> 20],
      [color |-> 4, area |-> 60000, x |-> 0, y |-> 0, w |-> 30, h |-> 30] }

\* The outer loop of detect_ear_tags visits the colours in palette order.
InLoopOrder(contours) ==
    \A i \in 1..(Len(contours) - 1) : contours[i].color <= contours[i + 1].color

Named(contours) ==
    [i \in 1..Len(contours) |->
        [color |-> color_names[contours[i].color], area |-> contours[i].area,
         x |-> contours[i].x, y |-> contours[i].y,
         w |-> contours[i].w, h |-> contours[i].h]]

IdImages ==
    { [malformed |-> FALSE, pyzbar_available |-> TRUE, codes |-> codes,
       contours |-> Named(contours), face |-> face, muzzle |-> muzzle] :
        codes \in SeqsUpTo(Payloads, MaxCodes),
        contours \in { q \in SeqsUpTo(ContourCases, MaxContours) : InLoopOrder(q) },
        face \in { "cascade", "orb", "none" },
        muzzle \in BOOLEAN }
    \cup
    { [malformed |-> m, pyzbar_available |-> FALSE, codes |-> << >>,
       contours |-> Named(contours), face |-> "orb", muzzle |-> TRUE] :
        m \in BOOLEAN,
        contours \in { q \in SeqsUpTo(ContourCases, 1) : InLoopOrder(q) } }

KnownDict(qr_id) == [qr_id |-> qr_id, rfid |-> None, ear_tag_id |-> None]

\* Not passed, empty, no qr_id, an empty qr_id, a qr_id some image carries
\* and one no image carries.
KnownCases ==
    { None, Some(EmptyDict), Some(KnownDict(None)), Some(KnownDict(Some(""))),
      Some(KnownDict(Some("B"))), Some(KnownDict(Some("C"))) }

CallIdentifyAnimal ==
    /\ op = "none"
    /\ \E image \in IdImages, known_identifiers \in KnownCases :
          /\ op' = "identify_animal"
          /\ args' = [image |-> image, known_identifiers |-> known_identifiers]
          /\ ret' = identify_animal(image, known_identifiers)

NextIdentify == CallIdentifyAnimal \/ Return

SpecIdentify == Init /\ [][NextIdentify]_vars

(***************************************************************************)
(* Properties of identify_animal (SpecIdentify)                            *)
(***************************************************************************)
Identified == op = "identify_animal"

\* C5: primary_method is the first of decoded code, coloured tag, facial
\* signature, muzzle signature that produced a detection; None only when
\* none did; never "ear_tag" when a code was decoded.
C5_PrimaryMethodPrecedence ==
    Identified =>
        /\ ret.primary_method =
              (IF ret.qr_codes # << >> THEN Some("qr_code")
               ELSE IF ret.ear_tags # << >> THEN Some("ear_tag")
               ELSE IF ret.facial_features # None THEN Some("facial_biometric")
               ELSE IF ret.muzzle_pattern # None THEN Some("muzzle_biometric")
               ELSE None)
        /\ (ret.qr_codes # << >> => ret.primary_method # Some("ear_tag"))

\* A decoded code and a coloured tag in the same image.
C5_Witness ==
    /\ Identified
    /\ ret.qr_codes # << >>
    /\ ret.ear_tags # << >>
    /\ ret.facial_features # None
    /\ ret.primary_method = Some("qr_code")

\* The confidences of every populated detection of a result.
DetectionConfidences(r) ==
    { r.qr_codes[i].confidence : i \in 1..Len(r.qr_codes) }
      \cup { r.ear_tags[i].confidence : i \in 1..Len(r.ear_tags) }
      \cup (IF r.facial_features # None THEN { r.facial_features[1].confidence } ELSE {})
      \cup (IF r.muzzle_pattern # None THEN { r.muzzle_pattern[1].confidence } ELSE {})

\* C6: without a known-identifier match, confidence_score is the maximum
\* confidence among all populated detections (0 when there is none).
C6_ConfidenceIsMaxOfAll ==
    (Identified /\ "matched" \notin DOMAIN ret) =>
        /\ \A c \in DetectionConfidences(ret) : ret.confidence_score >= c
        /\ ret.confidence_score \in DetectionConfidences(ret) \cup {0}

\* C7: confidence_score is 0.98 and matched is true exactly when a known
\* qr_id is supplied and equals the data of a decoded code; otherwise the
\* score is not promoted and the result carries no matched mark.
C7_MatchExactly ==
    Identified =>
        LET known == args.known_identifiers
            supplied == /\ known # None
                        /\ "qr_id" \in DOMAIN known[1]
                        /\ known[1].qr_id # None
            equal == supplied /\ \E i \in 1..Len(ret.qr_codes) :
                                    ret.qr_codes[i].data = known[1].qr_id[1]
        IN  /\ equal <=> ("matched" \in DOMAIN ret /\ ret.matched)
            /\ equal <=> (ret.confidence_score = 980000)

\* The known qr_id is the payload of the second of two decoded codes.
C7_Witness ==
    /\ Identified
    /\ Len(ret.qr_codes) = 2
    /\ ret.qr_codes[1].data # "B"
    /\ ret.qr_codes[2].data = "B"
    /\ args.known_identifiers = Some(KnownDict(Some("B")))
    /\ ret.confidence_score = 980000
    /\ ret.matched

(***************************************************************************)
(* compare_biometric_signatures                                            *)
(*                                                                         *)
(* Signatures are vectors of integers (the cosine does not depend on the   *)
(* scale).  The similarity and the threshold are in thousandths; the       *)
(* similarity is rounded towards zero, which leaves                        *)
(* similarity >= threshold unchanged for a threshold in whole thousandths. *)
(***************************************************************************)
RECURSIVE dot(_, _)
dot(a, b) ==
    IF a = << >> THEN 0 ELSE Head(a) * Head(b) + dot(Tail(a), Tail(b))

\* floor of the square root, by bisection in lo..hi
RECURSIVE isqrt_in(_, _, _)
isqrt_in(x, lo, hi) ==
    IF lo >= hi THEN lo
    ELSE LET mid == (lo + hi + 1) \div 2
         IN  IF mid * mid <= x THEN isqrt_in(x, mid, hi) ELSE isqrt_in(x, lo, mid - 1)

\* dot_product / (norm1 * norm2), from the dot product and the squared norms
cosine(dot_product, norm1_sq, norm2_sq) ==
    LET magnitude ==
            isqrt_in((1000000 * dot_product * dot_product) \div (norm1_sq * norm2_sq),
                     0, 1000)
    IN  IF dot_product < 0 THEN -magnitude ELSE magnitude

\* Variant: the lower bound of np.clip left out.
clip_unit_no_floor(similarity) == Min(1000, similarity)

\* np.clip(similarity, 0, 1)
clip_unit(similarity) == Max(0, Min(1000, similarity))

\* Variant: both signatures cut to the length of the first.
min_len_of_first(sig1, sig2) == Len(sig1)

min_len_of(sig1, sig2) == Min(Len(sig1), Len(sig2))

\* Returns <<is_match, similarity>>.  np.dot raises on vectors of different
\* lengths, and the except clause returns (False, 0.0).
compare_biometric_signatures(sig1, sig2, threshold) ==
    IF sig1 = << >> \/ sig2 = << >> THEN <<FALSE, 0>>
    ELSE
    LET min_len == min_len_of(sig1, sig2)
        a == Take(sig1, min_len)
        b == Take(sig2, min_len)
    IN  IF Len(a) # Len(b) THEN <<FALSE, 0>>
        ELSE IF dot(a, a) = 0 \/ dot(b, b) = 0 THEN <<FALSE, 0>>
        ELSE LET similarity == clip_unit(cosine(dot(a, b), dot(a, a), dot(b, b)))
             IN  <<similarity >= threshold, similarity>>

MaxLen == 2     \* longest signature
MaxVal == 1     \* largest component, in absolute value

Signatures == SeqsUpTo((-MaxVal)..MaxVal, MaxLen)

\* Below zero, zero, the default 0.85 and another in range, above one.
Thresholds == { -100, 0, 500, 850, 1100 }

CallCompareBiometricSignatures ==
    /\ op = "none"
    /\ \E sig1 \in Signatures, sig2 \in Signatures, threshold \in Thresholds :
          /\ op' = "compare_biometric_signatures"
          /\ args' = [sig1 |-> sig1, sig2 |-> sig2, threshold |-> threshold]
          /\ ret' = compare_biometric_signatures(sig1, sig2, threshold)

NextCompare == CallCompareBiometricSignatures \/ Return

SpecCompare == Init /\ [][NextCompare]_vars

(***************************************************************************)
(* Properties of compare_biometric_signatures (SpecCompare)                *)
(***************************************************************************)
Compared == op = "compare_biometric_signatures"

\* C8: comparing A with B returns what comparing B with A returns, for
\* vectors of any lengths (empty and zero-norm ones too) and any threshold.
C8_CompareSymmetric ==
    Compared => ret = compare_biometric_signatures(args.sig2, args.sig1, args.threshold)

\* Vectors of different lengths that are neither parallel nor orthogonal.
C8_Witness ==
    /\ Compared
    /\ Len(args.sig1) # Len(args.sig2)
    /\ args.sig1 # << >>
    /\ args.sig2 # << >>
    /\ ret[2] > 0

\* The common prefix of the two signatures of the call.
CommonA == SubSeq(args.sig1, 1, Min(Len(args.sig1), Len(args.sig2)))
CommonB == SubSeq(args.sig2, 1, Min(Len(args.sig1), Len(args.sig2)))

SumOfSquares(v) == dot(v, v)

Degenerate ==
    \/ CommonA = << >>
    \/ SumOfSquares(CommonA) = 0
    \/ SumOfSquares(CommonB) = 0

\* C9: the similarity is the cosine of the vectors cut to their common
\* length, within [0, 1] (a negative cosine is returned as 0), and isMatch is
\* similarity >= threshold; with an empty or zero-norm vector the result is
\* (False, 0.0) whatever the threshold.
C9_SimilarityAndMatch ==
    Compared =>
        LET d == dot(CommonA, CommonB)
            n == SumOfSquares(CommonA) * SumOfSquares(CommonB)
            sim == ret[2]
        IN  /\ sim >= 0 /\ sim <= 1000
            /\ Degenerate => ret = <<FALSE, 0>>
            /\ ~Degenerate =>
                  /\ ret[1] = (sim >= args.threshold)
                  /\ d <= 0 => sim = 0
                  /\ d > 0 => /\ sim * sim * n <= 1000000 * d * d
                              /\ (sim + 1) * (sim + 1) * n > 1000000 * d * d

\* A vector whose norm is zero once cut to the common length, compared with
\* a threshold that a similarity of 0 would meet.
C9_Witness ==
    /\ Compared
    /\ args.threshold <= 0
    /\ SumOfSquares(args.sig1) > 0
    /\ SumOfSquares(CommonA) = 0
    /\ CommonA # << >>
    /\ ret = <<FALSE, 0>>

(***************************************************************************)
(* Inputs of analyze_body_condition_score: each factor at and just above   *)
(* every threshold of its bucket table (brightness also just below the     *)
(* `<` thresholds).                                                        *)
(***************************************************************************)
CircularityValues == { 30, 31, 40, 41, 50, 51, 60, 61, 70, 71 }
TextureValues == { 45, 46, 60, 61, 75, 76 }
SolidityValues == { 65, 66, 75, 76, 85, 86 }
BrightnessValues == { 79, 80, 99, 100, 140, 141, 160, 161 }

\* The features of the reference case Healthy_Cattle_1.
ReferenceBody == Body(TRUE, TRUE, 72, 85, 68, 145)

BcsImages ==
    { Image(Body(TRUE, TRUE, c, s, t, b), NeutralGait, ClearSkin) :
        c \in CircularityValues, s \in SolidityValues,
        t \in TextureValues, b \in BrightnessValues }
    \cup { Image(ReferenceBody, NeutralGait, ClearSkin) }
    \cup { Image(Body(TRUE, FALSE, c, s, 0, 0), NeutralGait, ClearSkin) :
             c \in CircularityValues, s \in SolidityValues }
    \cup { Image(NoContour, NeutralGait, ClearSkin), MalformedImage }

CallAnalyzeBodyConditionScore ==
    /\ op = "none"
    /\ \E image \in BcsImages :
          /\ op' = "analyze_body_condition_score"
          /\ args' = [image |-> image]
          /\ ret' = analyze_body_condition_score(image)

NextBodyCondition == CallAnalyzeBodyConditionScore \/ Return

SpecBodyCondition == Init /\ [][NextBodyCondition]_vars

(***************************************************************************)
(* Properties of analyze_body_condition_score (SpecBodyCondition)          *)
(***************************************************************************)
\* The table was applied (no fallback return).
Scored == op = "analyze_body_condition_score" /\ "metrics" \in DOMAIN ret

\* The score of an image whose body mask is not empty, by its four factors.
ScoreAt(circularity, texture_smoothness, solidity, brightness_mean) ==
    analyze_body_condition_score(
        Image(Body(TRUE, TRUE, circularity, solidity, texture_smoothness, brightness_mean),
              NeutralGait, ClearSkin)).score

\* C10: raising one of circularity, texture_smoothness, solidity,
\* brightness_mean, the other three held, never lowers the score.
C10_ScoreMonotonic ==
    Scored =>
        LET m == ret.metrics
        IN  /\ \A c \in CircularityValues :
                  c >= m.circularity =>
                      ScoreAt(c, m.texture_smoothness, m.solidity, m.brightness_mean)
                          >= ret.score
            /\ \A t \in TextureValues :
                  t >= m.texture_smoothness =>
                      ScoreAt(m.circularity, t, m.solidity, m.brightness_mean)
                          >= ret.score
            /\ \A s \in SolidityValues :
                  s >= m.solidity =>
                      ScoreAt(m.circularity, m.texture_smoothness, s, m.brightness_mean)
                          >= ret.score
            /\ \A b \in BrightnessValues :
                  b >= m.brightness_mean =>
                      ScoreAt(m.circularity, m.texture_smoothness, m.solidity, b)
                          >= ret.score

\* A body whose sum falls just short of 3.5 in floating point (score 3) and
\* that a brighter image lifts to score 4.
C10_Witness ==
    /\ Scored
    /\ ret.score = 3
    /\ << circularity_score(ret.metrics.circularity),
          texture_score(ret.metrics.texture_smoothness),
          solidity_score(ret.metrics.solidity),
          brightness_score(ret.metrics.brightness_mean) >> \in FloatBelowTie
    /\ \E b \in BrightnessValues :
          /\ b > ret.metrics.brightness_mean
          /\ ScoreAt(ret.metrics.circularity, ret.metrics.texture_smoothness,
                     ret.metrics.solidity, b) = 4

\* The call just made was analyze_body_condition_score.
ScoredOrNot == op = "analyze_body_condition_score"

\* C12: when no body contour is found, or the computation fails, the call
\* returns (it does not raise) a result with a score, a confidence of at most
\* 0.3 and an assessment.
C12_NoContourLowConfidence ==
    (ScoredOrNot /\ (args.image.malformed \/ ~args.image.has_contour)) =>
        /\ { "score", "confidence", "assessment" } \subseteq DOMAIN ret
        /\ ret.score \in 1..5
        /\ ret.confidence >= 0
        /\ ret.confidence <= 30

\* An image cv2 accepts in which no contour is found.
C12_Witness ==
    /\ ScoredOrNot
    /\ ~args.image.malformed
    /\ ~args.image.has_contour
    /\ ret.score = 3
    /\ ret.confidence = 30

\* The call was made on the features of Healthy_Cattle_1.
ReferenceCase ==
    /\ ScoredOrNot
    /\ ~args.image.malformed
    /\ args.image.has_contour
    /\ args.image.has_body_pixels
    /\ args.image.circularity = 72
    /\ args.image.solidity = 85
    /\ args.image.texture_smoothness = 68
    /\ args.image.brightness_mean = 145

\* C14: circularity 0.72, solidity 0.85, texture_smoothness 0.68 and
\* brightness_mean 145 give score 4 with a confidence of at least 0.80.
C14_ReferenceCase ==
    ReferenceCase => /\ ret.score = 4
                     /\ ret.confidence >= 80

\* The reference case was scored: 4, "Good - Optimal health", at the cap.
C14_Witness ==
    /\ ReferenceCase
    /\ ret.score = 4
    /\ ret.confidence = 95
    /\ ret.assessment = "Good - Optimal health"

\* C19: the brightness factor contributes 4.0 above 160, 3.5 above 140, 2.0
\* below 80, 2.5 from 80 to below 100 and 3.0 otherwise, weighted 0.15, to
\* the raw score the returned score is rounded from.
C19_BrightnessBelow80 ==
    Scored =>
        LET m == ret.metrics
            b == m.brightness_mean
            claimed == IF b > 160 THEN 40
                       ELSE IF b > 140 THEN 35
                       ELSE IF b < 80 THEN 20
                       ELSE IF b < 100 THEN 25
                       ELSE 30
            c == circularity_score(m.circularity)
            t == texture_score(m.texture_smoothness)
            s == solidity_score(m.solidity)
        IN  /\ brightness_score(b) = claimed
            /\ ret.score = round_clip(weighted_score(c, t, s, claimed),
                                      <<c, t, s, claimed>> \in FloatBelowTie)

(***************************************************************************)
(* detect_lameness on its own.  The gait measurements stand at, just below *)
(* and just above every threshold of the three signals.                    *)
(***************************************************************************)
LamenessGaits ==
    { [asymmetry_score |-> a, left_activity |-> lr[1], right_activity |-> lr[2],
       edge_density |-> e] :
        a \in { 10, 18, 19, 25, 26, 35, 36 },
        lr \in { <<50, 50>>, <<85, 100>>, <<84, 100>>, <<75, 100>>, <<74, 100>>,
                 <<100, 74>>, <<0, 0>> },
        e \in { 0, 2, 3, 15, 27, 28, 35, 36, 100 } }

CallDetectLameness ==
    /\ op = "none"
    /\ \E pose \in PoseCases :
         \E image \in { Image(NoContour, g, ClearSkin) :
                          g \in IF PoseRead(pose) THEN {NeutralGait} ELSE LamenessGaits }
                      \cup {MalformedImage} :
            /\ op' = "detect_lameness"
            /\ args' = [image |-> image, pose_keypoints |-> pose[1], variation |-> pose[2]]
            /\ ret' = detect_lameness(image, pose[1], pose[2])

NextLameness == CallDetectLameness \/ Return

SpecLameness == Init /\ [][NextLameness]_vars

(***************************************************************************)
(* Properties of detect_lameness (SpecLameness)                            *)
(***************************************************************************)
\* The visual path ran to its scoring: no pose keypoints were passed and the
\* image could be measured.
VisuallyScored ==
    /\ op = "detect_lameness"
    /\ ~PoseRead(<<args.pose_keypoints, args.variation>>)
    /\ ~args.image.malformed

\* C15: in the visual path lameness_score is the sum of the contributions of
\* the asymmetry, activity and posture signals and lies in [0, 1]; detected
\* is true exactly when lameness_score > 0.25; confidence is
\* min(0.90, lameness_score + 0.20) when detected and 0.35 otherwise.
C15_VisualLamenessScore ==
    VisuallyScored =>
        LET image == args.image
            sum == asymmetry_points(image.asymmetry_score)
                     + activity_points(image.left_activity, image.right_activity)
                     + posture_points(image.edge_density)
        IN  /\ ret.lameness_score = sum
            /\ ret.lameness_score >= 0
            /\ ret.lameness_score <= 100
            /\ ret.detected <=> (ret.lameness_score > 25)
            /\ ret.detected =>
                  ret.confidence = (IF ret.lameness_score + 20 < 90
                                    THEN ret.lameness_score + 20 ELSE 90)
            /\ ~ret.detected => ret.confidence = 35

\* One signal alone reaches 0.25, which is not above the threshold.
C15_Witness ==
    /\ VisuallyScored
    /\ ret.lameness_score = 25
    /\ ~ret.detected
    /\ ret.confidence = 35

(***************************************************************************)
(* detect_visible_symptoms on its own.  Each measurement stands at and     *)
(* next to every threshold of its detector; DiseasedSkin is the skin of    *)
(* the reference case Diseased_Cattle_1.                                   *)
(***************************************************************************)
DiseasedSkin ==
    [dark_spots_count |-> 9, red_percentage |-> 22, discharge_area |-> 2200, texture_std |-> 18]

SymptomSkins ==
    { [dark_spots_count |-> d, red_percentage |-> r, discharge_area |-> h,
       texture_std |-> t] :
        d \in { 9, 25, 26, 40, 41 }, r \in { 22, 40, 41, 50, 51 },
        h \in { 2200, 5000, 5001, 8000, 8001 }, t \in { 14, 15, 18, 19, 20, 30 } }
    \cup { DiseasedSkin }

CallDetectVisibleSymptoms ==
    /\ op = "none"
    /\ \E image \in { Image(NoContour, NeutralGait, k) : k \in SymptomSkins }
                    \cup {MalformedImage} :
          /\ op' = "detect_visible_symptoms"
          /\ args' = [image |-> image]
          /\ ret' = detect_visible_symptoms(image)

NextSymptoms == CallDetectVisibleSymptoms \/ Return

SpecSymptoms == Init /\ [][NextSymptoms]_vars

(***************************************************************************)
(* Properties of detect_visible_symptoms (SpecSymptoms)                    *)
(***************************************************************************)
SymptomsDetected == op = "detect_visible_symptoms"

\* C13: for dark_spots_count 9, red_percentage 0.22, discharge_area 2200 and
\* texture_std 18 the symptom set has at least 4 records and
\* requires_attention is true.
C13_DiseasedReferenceCase ==
    (/\ SymptomsDetected
     /\ ~args.image.malformed
     /\ args.image.dark_spots_count = 9
     /\ args.image.red_percentage = 22
     /\ args.image.discharge_area = 2200
     /\ args.image.texture_std = 18) =>
        /\ Len(ret.symptoms) >= 4
        /\ ret.requires_attention

\* The detector a record type belongs to: 1 lesions, 2 inflammation,
\* 3 discharge, 4 coat.
DetectorOf(type) ==
    CASE type \in { "severe_lesions", "moderate_lesions" } -> 1
      [] type \in { "severe_inflammation", "moderate_inflammation" } -> 2
      [] type \in { "significant_discharge", "possible_discharge" } -> 3
      [] type \in { "poor_coat", "fair_coat" } -> 4

\* The <<severity, confidence>> the threshold table of a detector gives for
\* a measurement, None when it gives no record.
TableEntry(detector, image) ==
    CASE detector = 1 ->
            IF image.dark_spots_count > 40 THEN Some(<<"severe", 75>>)
            ELSE IF image.dark_spots_count > 25 THEN Some(<<"moderate", 68>>)
            ELSE None
      [] detector = 2 ->
            IF image.red_percentage > 50 THEN Some(<<"severe", 78>>)
            ELSE IF image.red_percentage > 40 THEN Some(<<"moderate", 70>>)
            ELSE None
      [] detector = 3 ->
            IF image.discharge_area > 8000 THEN Some(<<"moderate", 65>>)
            ELSE IF image.discharge_area > 5000 THEN Some(<<"mild", 58>>)
            ELSE None
      [] detector = 4 ->
            IF image.texture_std < 15 THEN Some(<<"moderate", 72>>)
            ELSE IF image.texture_std < 20 THEN Some(<<"mild", 62>>)
            ELSE None

\* C16: each of the four detectors appends no record or one, as its
\* threshold table says: a set never holds more than 4 records nor two of
\* one detector, the records stand in the order lesions, inflammation,
\* discharge, coat, and total_detected is the number of records.
C16_OneRecordPerDetector ==
    SymptomsDetected =>
        LET recs == ret.symptoms
        IN  /\ Len(recs) <= 4
            /\ ret.total_detected = Len(recs)
            /\ \A i \in 1..Len(recs), j \in 1..Len(recs) :
                  i < j => DetectorOf(recs[i].type) < DetectorOf(recs[j].type)
            /\ ~args.image.malformed => \A d \in 1..4 :
                  LET of_d == { i \in 1..Len(recs) : DetectorOf(recs[i].type) = d }
                  IN  IF TableEntry(d, args.image) = None
                      THEN of_d = {}
                      ELSE /\ Cardinality(of_d) = 1
                           /\ \A i \in of_d :
                                 <<recs[i].severity, recs[i].confidence>>
                                     = TableEntry(d, args.image)[1]

\* All four detectors fired, each once.
C16_Witness ==
    /\ SymptomsDetected
    /\ Len(ret.symptoms) = 4
    /\ ret.total_detected = 4
    /\ ret.symptoms[1].type = "moderate_lesions"
    /\ ret.symptoms[4].type = "poor_coat"

\* C17: requires_attention is true exactly when some record is moderate or
\* severe; highest_severity is the greatest record severity under
\* severe > moderate > mild > none, none for an empty set; so
\* requires_attention holds exactly when highest_severity is moderate or
\* severe.
C17_AttentionAndHighestSeverity ==
    SymptomsDetected =>
        LET recs == ret.symptoms
            Rank(x) == IF x = "severe" THEN 3 ELSE IF x = "moderate" THEN 2
                       ELSE IF x = "mild" THEN 1 ELSE 0
        IN  /\ ret.requires_attention <=>
                  \E i \in 1..Len(recs) : recs[i].severity \in { "moderate", "severe" }
            /\ recs = << >> => ret.highest_severity = "none"
            /\ recs # << >> =>
                  /\ \E i \in 1..Len(recs) : recs[i].severity = ret.highest_severity
                  /\ \A i \in 1..Len(recs) :
                        Rank(recs[i].severity) <= Rank(ret.highest_severity)
            /\ ret.requires_attention <=> ret.highest_severity \in { "moderate", "severe" }

\* A mild record before a moderate one, and no severe one.
C17_Witness ==
    /\ SymptomsDetected
    /\ Len(ret.symptoms) = 2
    /\ ret.symptoms[1].severity = "mild"
    /\ ret.symptoms[2].severity = "moderate"
    /\ ret.highest_severity = "moderate"
    /\ ret.requires_attention

(***************************************************************************)
(* detect_ear_tags on its own.  The contours stand on and next to the      *)
(* bounds of the area and of the aspect ratio; two of them have the same   *)
(* area, hence the same confidence.                                        *)
(***************************************************************************)
MaxTagContours == 4     \* colour-mask contours in one image

TagContourCases ==
    { [color |-> 1, area |-> 500, x |-> 0, y |-> 0, w |-> 20, h |-> 20],
      [color |-> 1, area |-> 501, x |-> 0, y |-> 0, w |-> 20, h |-> 20],
      [color |-> 1, area |-> 1000, x |-> 0, y |-> 0, w |-> 10, h |-> 20],
      [color |-> 2, area |-> 1000, x |-> 0, y |-> 0, w |-> 30, h |-> 10],
      [color |-> 2, area |-> 49999, x |-> 0, y |-> 0, w |-> 30, h |-> 20],
      [color |-> 3, area |-> 50000, x |-> 0, y |-> 0, w |-> 30, h |-> 20],
      [color |-> 3, area |-> 2000, x |-> 0, y |-> 0, w |-> 29, h |-> 10],
      [color |-> 4, area |-> 501, x |-> 5, y |-> 5, w |-> 11, h |-> 20] }

TagImages ==
    { [malformed |-> FALSE, pyzbar_available |-> TRUE, codes |-> << >>,
       contours |-> Named(contours), face |-> "none", muzzle |-> FALSE] :
        contours \in { q \in SeqsUpTo(TagContourCases, MaxTagContours) : InLoopOrder(q) } }
    \cup
    { [malformed |-> TRUE, pyzbar_available |-> TRUE, codes |-> << >>,
       contours |-> << >>, face |-> "none", muzzle |-> FALSE] }

CallDetectEarTags ==
    /\ op = "none"
    /\ \E image \in TagImages :
          /\ op' = "detect_ear_tags"
          /\ args' = [image |-> image]
          /\ ret' = detect_ear_tags(image)

NextEarTags == CallDetectEarTags \/ Return

SpecEarTags == Init /\ [][NextEarTags]_vars

(***************************************************************************)
(* Properties of detect_ear_tags (SpecEarTags)                             *)
(***************************************************************************)
EarTagsDetected == op = "detect_ear_tags"

\* The candidate a kept contour becomes.
CandidateOf(c) ==
    [color |-> c.color, bbox |-> <<c.x, c.y, c.w, c.h>>, area |-> c.area,
     confidence |-> IF 500000 + 7 * c.area < 850000 THEN 500000 + 7 * c.area ELSE 850000]

\* ret holds the candidates of min(3, number kept) different kept contours,
\* in non-increasing order of confidence, and no kept contour left out has a
\* higher confidence than one returned.  kept is the set of the positions of
\* the kept contours.
IsTopThree(kept) ==
    LET contours == args.image.contours
        n == Len(ret)
    IN  /\ n = (IF Cardinality(kept) < 3 THEN Cardinality(kept) ELSE 3)
        /\ \A k \in 1..(n - 1) : ret[k].confidence >= ret[k + 1].confidence
        /\ \E f \in [1..n -> kept] :
              /\ \A j, k \in 1..n : j # k => f[j] # f[k]
              /\ \A k \in 1..n : ret[k] = CandidateOf(contours[f[k]])
              /\ \A i \in kept :
                    (\A k \in 1..n : f[k] # i) =>
                        \A k \in 1..n :
                            CandidateOf(contours[i]).confidence <= ret[k].confidence

\* C18 as stated: a contour is kept when its area is in [500, 50000] and its
\* aspect ratio w / h in [0.5, 3.0], the bounds included; it gets confidence
\* min(0.85, 0.5 + area/50000 * 0.35); at most 3 candidates are returned,
\* the highest-confidence ones, in non-increasing order of confidence.
C18_BoundsIncluded ==
    (EarTagsDetected /\ ~args.image.malformed) =>
        LET contours == args.image.contours
        IN  IsTopThree({ i \in 1..Len(contours) :
                           /\ 500 <= contours[i].area
                           /\ contours[i].area <= 50000
                           /\ contours[i].h > 0
                           /\ 2 * contours[i].w >= contours[i].h
                           /\ contours[i].w <= 3 * contours[i].h })

\* C18 as amended: a contour is kept when its area is strictly between 500
\* and 50000 and its aspect ratio strictly between 0.5 and 3.0; the
\* confidence, the cap of 3 and the order are as stated.
C18_BoundsExcluded ==
    (EarTagsDetected /\ ~args.image.malformed) =>
        LET contours == args.image.contours
        IN  IsTopThree({ i \in 1..Len(contours) :
                           /\ 500 < contours[i].area
                           /\ contours[i].area < 50000
                           /\ contours[i].h > 0
                           /\ 2 * contours[i].w > contours[i].h
                           /\ contours[i].w < 3 * contours[i].h })

\* Four contours pass the filter, found in increasing order of confidence;
\* the three best are returned, best first.
C18_Witness ==
    /\ EarTagsDetected
    /\ Len(args.image.contours) = 4
    /\ Len(ret) = 3
    /\ args.image.contours[1].area = 501
    /\ args.image.contours[4].area = 2000
    /\ ret[1].area = 49999
    /\ ret[2].area = 2000
    /\ ret[3].area = 501

(***************************************************************************)
(* _assess_vitals on its own.  Every reading is null, just below its       *)
(* range, on either bound of it, or just above; some dicts lack keys or    *)
(* carry a key that is not a vital.                                        *)
(***************************************************************************)
ReadingsOf(vital) ==
    { None,
      Some(normal_ranges[vital][1] - 1), Some(normal_ranges[vital][1]),
      Some(normal_ranges[vital][2]), Some(normal_ranges[vital][2] + 1) }

VitalsDicts ==
    { VitalsDict(t, h, r, w) :
        t \in ReadingsOf("body_temperature_c"), h \in ReadingsOf("heart_rate_bpm"),
        r \in ReadingsOf("respiratory_rate_bpm"), w \in ReadingsOf("weight_kg") }
    \cup { EmptyDict,
           [heart_rate_bpm |-> Some(85)],
           [weight_kg |-> Some(500), pulse |-> Some(10)] }

CallAssessVitals ==
    /\ op = "none"
    /\ \E vitals \in VitalsDicts :
          /\ op' = "_assess_vitals"
          /\ args' = [vitals |-> vitals]
          /\ ret' = _assess_vitals(vitals)

NextVitals == CallAssessVitals \/ Return

SpecVitals == Init /\ [][NextVitals]_vars

(***************************************************************************)
(* Properties of _assess_vitals (SpecVitals)                               *)
(***************************************************************************)
VitalsAssessed == op = "_assess_vitals"

\* The positions of the entries of a list that are about a vital.
EntriesAbout(entries, vital) == { i \in 1..Len(entries) : entries[i][1] = vital }

\* C20: each supplied, non-null reading among temperature, heart rate,
\* respiratory rate and weight produces exactly one entry: an alert when the
\* value is strictly below the low bound or strictly above the high bound of
\* its normal range (38.0-39.5, 48-84, 10-30, 200-800), a note when it is
\* within the range, bounds included; a null or missing reading produces
\* neither, and nothing else produces an entry.
C20_OneEntryPerReading ==
    VitalsAssessed =>
        LET range == [body_temperature_c |-> <<380, 395>>,
                      heart_rate_bpm |-> <<48, 84>>,
                      respiratory_rate_bpm |-> <<10, 30>>,
                      weight_kg |-> <<200, 800>>]
            supplied == { v \in DOMAIN range :
                            v \in DOMAIN args.vitals /\ args.vitals[v] # None }
        IN  /\ Len(ret.alerts) + Len(ret.notes) = Cardinality(supplied)
            /\ \A v \in DOMAIN range :
                  LET alerts == EntriesAbout(ret.alerts, v)
                      notes == EntriesAbout(ret.notes, v)
                  IN  IF v \notin supplied
                      THEN alerts = {} /\ notes = {}
                      ELSE LET value == args.vitals[v][1]
                           IN  IF value < range[v][1] \/ value > range[v][2]
                               THEN /\ Cardinality(alerts) = 1
                                    /\ notes = {}
                                    /\ \A i \in alerts :
                                          /\ ret.alerts[i][2] = value
                                          /\ ret.alerts[i][3] =
                                                (IF value < range[v][1]
                                                 THEN "is below normal range"
                                                 ELSE "is above normal range")
                               ELSE /\ Cardinality(notes) = 1
                                    /\ alerts = {}
                                    /\ \A i \in notes : ret.notes[i][2] = value

\* A temperature on the low bound is noted, a heart rate one above the high
\* bound is alerted, a null respiratory rate says nothing.
C20_Witness ==
    /\ VitalsAssessed
    /\ args.vitals = VitalsDict(Some(380), Some(85), None, Some(800))
    /\ Len(ret.alerts) = 1
    /\ ret.alerts[1][1] = "heart_rate_bpm"
    /\ Len(ret.notes) = 2
    /\ ret.notes[1][1] = "body_temperature_c"

(***************************************************************************)
(* Every operation of the engine that returns a confidence, called from    *)
(* the idle state.                                                         *)
(***************************************************************************)
NextConfidence ==
    \/ CallAnalyzeBodyConditionScore
    \/ CallDetectLameness
    \/ CallDetectVisibleSymptoms
    \/ CallDetectEarTags
    \/ CallIdentifyAnimal
    \/ Return

SpecConfidence == Init /\ [][NextConfidence]_vars

\* C11: every confidence the engine returns lies in [0, 1], on the fallback
\* and error returns too: the body-condition confidence (at most 0.95), the
\* lameness confidence (at most 0.90), the confidence of each symptom record
\* and of each ear-tag candidate, and identify_animal's confidence_score
\* with the confidences of the detections it reports.
C11_ConfidencesInUnitRange ==
    /\ op = "analyze_body_condition_score" =>
          ret.confidence >= 0 /\ ret.confidence <= 95
    /\ op = "detect_lameness" =>
          ret.confidence >= 0 /\ ret.confidence <= 90
    /\ op = "detect_visible_symptoms" =>
          \A i \in 1..Len(ret.symptoms) :
              ret.symptoms[i].confidence >= 0 /\ ret.symptoms[i].confidence <= 100
    /\ op = "detect_ear_tags" =>
          \A i \in 1..Len(ret) :
              ret[i].confidence >= 0 /\ ret[i].confidence <= 1000000
    /\ op = "identify_animal" =>
          /\ ret.confidence_score >= 0
          /\ ret.confidence_score <= 1000000
          /\ \A c \in DetectionConfidences(ret) : c >= 0 /\ c <= 1000000

\* All three lameness signals at their highest: the score is 1.0 and the
\* confidence is held at 0.90.
C11_Witness ==
    /\ op = "detect_lameness"
    /\ "lameness_score" \in DOMAIN ret
    /\ ret.lameness_score + 20 > 100
    /\ ret.confidence = 90

(***************************************************************************)
(* Closing recommendations of comprehensive_health_assessment (SpecFusion) *)
(***************************************************************************)
InSeq(x, seq) == \E i \in 1..Len(seq) : seq[i] = x

\* C21: in every assessment the recommendations end with the documentation
\* reminder, and the 'appears healthy' note is among them exactly when the
\* final alerts list (body condition, lameness, symptoms, vitals) is empty.
C21_ClosingRecommendations ==
    Assessed =>
        /\ ret.recommendations # << >>
        /\ ret.recommendations[Len(ret.recommendations)]
             = "Document in daily attendance and health log"
        /\ InSeq("Animal appears healthy - continue routine monitoring",
                 ret.recommendations)
             <=> ret.alerts = << >>

\* An assessment whose only alerts come from the vitals: no healthy note,
\* and the reminder is the single recommendation.
C21_Witness ==
    /\ Assessed
    /\ ret.alerts # << >>
    /\ ret.alerts = Get(ret.vitals_analysis, "alerts", << >>)
    /\ ret.recommendations = << "Document in daily attendance and health log" >>

(***************************************************************************)
(* Fallback paths and the confidence they return (SpecConfidence)          *)
(***************************************************************************)
\* analyze_body_condition_score left its ordinary path: the except clause,
\* the `if not contours` return, or the defaults 128 / 0.5 for an empty
\* body mask.
BodyConditionFallback ==
    /\ op = "analyze_body_condition_score"
    /\ \/ args.image.malformed
       \/ ~args.image.has_contour
       \/ ~args.image.has_body_pixels

\* detect_lameness left its ordinary path: the except clause of the visual
\* path, or fewer than ten keypoints on the pose path.
LamenessFallback ==
    /\ op = "detect_lameness"
    /\ \/ (args.pose_keypoints = None /\ args.image.malformed)
       \/ (args.pose_keypoints # None /\ args.pose_keypoints[1] > 0
             /\ args.pose_keypoints[1] < 10)

\* C22: whenever an analyzer takes a fallback path (no contour, defaults
\* for an empty body mask, caught exception, too few pose keypoints) the
\* confidence it returns is at most 0.4.
C22_FallbackConfidenceLow ==
    (BodyConditionFallback \/ LamenessFallback) => ret.confidence <= 40

(***************************************************************************)
(* Repeated calls.  A caller makes the same call twice on the same inputs; *)
(* the pose path draws its leg metrics with np.random.random() on each     *)
(* call, so each call has a variation of its own.                          *)
(***************************************************************************)
\* np.std of the drawn leg metrics: at most 0.2, in (0.2, 0.3], above 0.3
VariationDraws == {10, 25, 35}

\* pose_keypoints: not passed, too short, long enough
PoseKeypointCases == {None, Some(5), Some(12)}

CallDetectLamenessTwice ==
    /\ op = "none"
    /\ \E pose_keypoints \in PoseKeypointCases, first \in VariationDraws,
          second \in VariationDraws :
         \E image \in { Image(NoContour, g, ClearSkin) :
                          g \in IF pose_keypoints # None THEN {NeutralGait}
                                ELSE LamenessGaits }
                      \cup {MalformedImage} :
            /\ op' = "detect_lameness_twice"
            /\ args' = [image |-> image, pose_keypoints |-> pose_keypoints]
            /\ ret' = << detect_lameness(image, pose_keypoints, first),
                         detect_lameness(image, pose_keypoints, second) >>

CallComprehensiveHealthAssessmentTwice ==
    /\ op = "none"
    /\ \E pose_keypoints \in PoseKeypointCases, first \in VariationDraws,
          second \in VariationDraws, vitals \in VitalsCases :
         \E image \in { Image(b, NeutralGait, ClearSkin) : b \in FusionBodies }
                      \cup {MalformedImage} :
            /\ op' = "comprehensive_health_assessment_twice"
            /\ args' = [image |-> image, pose_keypoints |-> pose_keypoints,
                        vitals |-> vitals]
            /\ ret' = << comprehensive_health_assessment(image, pose_keypoints,
                                                         first, vitals),
                         comprehensive_health_assessment(image, pose_keypoints,
                                                         second, vitals) >>

NextRepeat ==
    CallDetectLamenessTwice \/ CallComprehensiveHealthAssessmentTwice \/ Return

SpecRepeat == Init /\ [][NextRepeat]_vars

CalledTwice ==
    op \in {"detect_lameness_twice", "comprehensive_health_assessment_twice"}

\* C23: every engine operation is deterministic per input: two calls of
\* detect_lameness or of comprehensive_health_assessment on the same inputs
\* return equal results.
C23_RepeatedCallsAgree == CalledTwice => ret[1] = ret[2]

(***************************************************************************)
(* Completion of comprehensive_health_assessment (SpecFusion)              *)
(***************************************************************************)
\* C25: comprehensive_health_assessment never fails the whole call: for
\* every combination of result shapes its analyzers return (full, reduced
\* fallback and error shapes, pose-based shapes) it returns an assessment
\* with health_score, overall_status, alerts and recommendations.
C25_AssessmentCompletes ==
    Assessed =>
        /\ "raised" \notin DOMAIN ret
        /\ {"health_score", "overall_status", "alerts", "recommendations"}
              \subseteq DOMAIN ret

\* Every analyzer returned its reduced shape (no 'metrics', no 'severity',
\* no 'affected_limb') and the assessment was still scored.
C25_Witness ==
    /\ Assessed
    /\ "body_condition" \in DOMAIN ret
    /\ "metrics" \notin DOMAIN ret.body_condition
    /\ "severity" \notin DOMAIN ret.lameness
    /\ "affected_limb" \notin DOMAIN ret.lameness
    /\ ret.symptoms.symptoms = << >>
    /\ ret.health_score = 100

(***************************************************************************)
(* Detected flag and severity label of the visual path (SpecLameness)      *)
(***************************************************************************)
\* C26: in the visual lameness path detected=true implies severity mild,
\* moderate or severe, and detected=false implies severity none, so the
\* penalty the fusion applies corresponds to the severity reported.
C26_DetectedMatchesSeverity ==
    VisuallyScored =>
        /\ ret.detected => ret.severity \in {"mild", "moderate", "severe"}
        /\ ~ret.detected => ret.severity = "none"

C28_AffectedLimbFollowsDetection ==
    VisuallyScored =>
        /\ ~(ret.lameness_score > 25 /\ ret.lameness_score <= 30)
        /\ ret.detected =>
              ret.affected_limb \in { "Left side (probable)",
                                      "Right side (probable)",
                                      "Both sides or hind legs" }
        /\ ~ret.detected =>
              ret.affected_limb = "Unknown - video analysis recommended"

\* The smallest detected sum, 0.35, reached by the asymmetry alone: the
\* activities are equal, so the hypothesis is both sides or hind legs.
C28_Witness ==
    /\ VisuallyScored
    /\ ret.detected
    /\ ret.lameness_score = 35
    /\ args.image.left_activity = args.image.right_activity
    /\ ret.affected_limb = "Both sides or hind legs"

(***************************************************************************)
(* EnhancedHealthAnalyzer, the analyzer the accuracy tests exercise.  It   *)
(* takes the measurements as a dict of metrics.  Its texture, solidity and *)
(* brightness tables, its weights, its rounding and its lameness tables    *)
(* are written as in HealthAnalyzer; its circularity table and its symptom *)
(* thresholds are its own.                                                 *)
(***************************************************************************)
circularity_score_refined(circularity) ==
    IF circularity > 75 THEN 45
    ELSE IF circularity > 65 THEN 40
    ELSE IF circularity > 55 THEN 35
    ELSE IF circularity > 45 THEN 30
    ELSE IF circularity > 35 THEN 25
    ELSE 15

circularity_confidence_refined(circularity) ==
    IF circularity > 75 THEN 35
    ELSE IF circularity > 65 THEN 32
    ELSE IF circularity > 55 THEN 30
    ELSE IF circularity > 45 THEN 25
    ELSE IF circularity > 35 THEN 22
    ELSE 18

\* The accumulated double of this table falls below the tie 3.5 for the
\* tuples of FloatBelowTie and for no other tuple.
analyze_body_condition_refined(metrics) ==
    LET circularity == Get(metrics, "circularity", 50)
        solidity == Get(metrics, "solidity", 70)
        texture_smoothness == Get(metrics, "texture_smoothness", 50)
        brightness_mean == Get(metrics, "brightness_mean", 128)
        c == circularity_score_refined(circularity)
        t == texture_score(texture_smoothness)
        s == solidity_score(solidity)
        b == brightness_score(brightness_mean)
        score == weighted_score(c, t, s, b)
        confidence == circularity_confidence_refined(circularity)
                        + texture_confidence(texture_smoothness)
                        + solidity_confidence(solidity) + 15
        final_score == round_clip(score, <<c, t, s, b>> \in FloatBelowTie)
    IN  [score |-> final_score,
         confidence |-> Min(95, confidence),
         assessment |-> body_condition_thresholds[final_score],
         metrics |-> [circularity |-> circularity,
                      solidity |-> solidity,
                      texture_smoothness |-> texture_smoothness,
                      brightness_mean |-> brightness_mean]]

\* posture_deviation is in hundredths; above_grid says that the double it
\* stands for lies just above that hundredth (abs(0.27 - 0.15)).
posture_points_refined(posture_deviation, above_grid) ==
    IF posture_deviation > 20 THEN 25
    ELSE IF posture_deviation > 12 \/ (posture_deviation = 12 /\ above_grid) THEN 15
    ELSE 0

detect_lameness_refined(metrics) ==
    LET asymmetry_score == Get(metrics, "asymmetry_score", 15)
        left_activity == Get(metrics, "left_activity", 50)
        right_activity == Get(metrics, "right_activity", 50)
        posture_deviation == Get(metrics, "posture_deviation", 10)
        severity == asymmetry_severity(asymmetry_score)
        lameness_score == asymmetry_points(asymmetry_score)
                            + activity_points(left_activity, right_activity)
                            + posture_points_refined(posture_deviation,
                                  Get(metrics, "posture_above_grid", FALSE))
        affected_limb ==
            IF lameness_score > 30
            THEN IF 100 * left_activity < 85 * right_activity
                 THEN "Left side (probable)"
                 ELSE IF 100 * right_activity < 85 * left_activity
                 THEN "Right side (probable)"
                 ELSE "Both sides or hind legs"
            ELSE "Unknown"
        lameness_detected == is_lameness_detected(lameness_score)
    IN  [detected |-> lameness_detected,
         confidence |-> lameness_confidence(lameness_detected, lameness_score),
         severity |-> severity,
         lameness_score |-> lameness_score,
         affected_limb |-> affected_limb,
         asymmetry_score |-> asymmetry_score,
         activity_difference |->
             (100 * Abs(left_activity - right_activity))
                 \div Max(Max(left_activity, right_activity), 1),
         recommendation |->
             IF lameness_detected
             THEN <<severity, "lameness detected - Conduct gait analysis and veterinary examination">>
             ELSE <<"No significant lameness detected from analysis">>]

\* The records of detect_symptoms_refined, by type, severity and confidence.
symptom_records_refined(metrics) ==
    LET dark_spots_count == Get(metrics, "dark_spots_count", 0)
        red_percentage == Get(metrics, "red_percentage", 0)
        discharge_area == Get(metrics, "discharge_area", 0)
        texture_std == Get(metrics, "texture_std", 30)
    IN  (IF dark_spots_count > 8
         THEN << [type |-> "severe_lesions", severity |-> "severe", confidence |-> 75] >>
         ELSE IF dark_spots_count > 5
         THEN << [type |-> "moderate_lesions", severity |-> "moderate", confidence |-> 68] >>
         ELSE << >>)
        \o (IF red_percentage > 20
            THEN << [type |-> "severe_inflammation", severity |-> "severe", confidence |-> 78] >>
            ELSE IF red_percentage > 12
            THEN << [type |-> "moderate_inflammation", severity |-> "moderate", confidence |-> 70] >>
            ELSE << >>)
        \o (IF discharge_area > 2000
            THEN << [type |-> "significant_discharge", severity |-> "moderate", confidence |-> 65] >>
            ELSE IF discharge_area > 800
            THEN << [type |-> "possible_discharge", severity |-> "mild", confidence |-> 58] >>
            ELSE << >>)
        \o (IF texture_std < 20
            THEN << [type |-> "poor_coat", severity |-> "moderate", confidence |-> 72] >>
            ELSE IF texture_std < 25
            THEN << [type |-> "fair_coat", severity |-> "mild", confidence |-> 62] >>
            ELSE << >>)

detect_symptoms_refined(metrics) ==
    LET symptoms == symptom_records_refined(metrics)
    IN  [symptoms |-> symptoms,
         total_detected |-> Len(symptoms),
         requires_attention |->
             \E i \in 1..Len(symptoms) : symptoms[i].severity \in {"moderate", "severe"},
         highest_severity |-> highest_severity_of(symptoms)]

(***************************************************************************)
(* The two analyzers on equal feature values (SpecConfidence)              *)
(***************************************************************************)
\* The features HealthAnalyzer measured on the image of the call, as the
\* metrics dict EnhancedHealthAnalyzer takes.
LamenessMetrics(image) ==
    [asymmetry_score |-> image.asymmetry_score,
     left_activity |-> image.left_activity,
     right_activity |-> image.right_activity,
     posture_deviation |-> Abs(image.edge_density - 15),
     posture_above_grid |-> image.edge_density = 27]

SymptomMetrics(image) ==
    [dark_spots_count |-> image.dark_spots_count,
     red_percentage |-> image.red_percentage,
     discharge_area |-> image.discharge_area,
     texture_std |-> image.texture_std]

\* The lameness half of the comparison: equal detected flag and severity.
LamenessDecisionsAgree ==
    (op = "detect_lameness" /\ args.pose_keypoints = None /\ ~args.image.malformed) =>
        LET refined == detect_lameness_refined(LamenessMetrics(args.image))
        IN  /\ refined.detected = ret.detected
            /\ refined.severity = ret.severity

\* C29: EnhancedHealthAnalyzer is decision-equivalent to HealthAnalyzer:
\* for equal feature values both return the same body condition score, the
\* same lameness detected flag and severity, and the same symptom count.
C29_RefinedAgreesWithProduction ==
    /\ Scored => analyze_body_condition_refined(ret.metrics).score = ret.score
    /\ LamenessDecisionsAgree
    /\ (op = "detect_visible_symptoms" /\ ~args.image.malformed) =>
          detect_symptoms_refined(SymptomMetrics(args.image)).total_detected
              = ret.total_detected

(***************************************************************************)
(* The storage steps of the analyze_image request (server_enhanced.py).    *)
(*                                                                         *)
(* args is what the earlier steps of the request settled: final_animal_id  *)
(* and id_results['primary_method'].  ret carries the request in flight:   *)
(* pc, the step to run next; db, the rows the request finds and adds       *)
(* (health records by animal, today's attendance by animal,              *)
(* identification events by animal); attempted, the database calls made;   *)
(* response, None until the handler returns.  A database call may fail     *)
(* (sqlite3 raising on a locked or unwritable file).                       *)
(***************************************************************************)
AnimalIds == {"COW-1", "COW-2"}

PrimaryMethods == {None, Some("qr_code"), Some("facial_biometric")}

\* LivestockDatabase.add_health_record: raises when the insert fails
add_health_record(db, animal_id, fails) ==
    IF fails THEN [raised |-> TRUE, db |-> db]
    ELSE [raised |-> FALSE,
          db |-> [db EXCEPT !.health_records = @ \cup {animal_id}]]

\* LivestockDatabase.mark_attendance.  outcome "connect_failed": connect()
\* raises, outside the try; "insert_failed": the insert raises inside the
\* try, the except prints and the call returns False; "ok": the row for
\* (animal_id, today) is inserted or updated and the call returns True.
mark_attendance(db, animal_id, outcome) ==
    IF outcome = "connect_failed" THEN [raised |-> TRUE, result |-> FALSE, db |-> db]
    ELSE IF outcome = "insert_failed" THEN [raised |-> FALSE, result |-> FALSE, db |-> db]
    ELSE [raised |-> FALSE, result |-> TRUE,
          db |-> [db EXCEPT !.attendance = @ \cup {animal_id}]]

\* LivestockDatabase.log_identification_event: raises when the insert fails
log_identification_event(db, animal_id, fails) ==
    IF fails THEN [raised |-> TRUE, db |-> db]
    ELSE [raised |-> FALSE,
          db |-> [db EXCEPT !.identification_events = @ \cup {animal_id}]]

\* The request reaches step 5 with its animal and its identification.
AnalyzeImageReceive ==
    /\ op = "none"
    /\ \E final_animal_id \in AnimalIds \cup {"unknown"},
          primary_method \in PrimaryMethods,
          attendance \in SUBSET AnimalIds :
          /\ op' = "analyze_image"
          /\ args' = [final_animal_id |-> final_animal_id,
                      primary_method |-> primary_method]
          /\ ret' = [pc |-> "save",
                     db |-> [health_records |-> {}, attendance |-> attendance,
                             identification_events |-> {}],
                     attempted |-> << >>,
                     response |-> None]

\* 5. SAVE TO DATABASE, in its own try / except
AnalyzeImageSave ==
    /\ op = "analyze_image"
    /\ ret.pc = "save"
    /\ \E fails \in BOOLEAN :
          LET saved == add_health_record(ret.db, args.final_animal_id, fails)
          IN  ret' = [ret EXCEPT !.pc = "attendance",
                                 !.db = saved.db,
                                 !.attempted = @ \o <<"add_health_record">>]
    /\ UNCHANGED <<op, args>>

\* 6. MARK ATTENDANCE: the call's return value is not read
AnalyzeImageAttendance ==
    /\ op = "analyze_image"
    /\ ret.pc = "attendance"
    /\ IF args.final_animal_id # "unknown"
       THEN \E outcome \in {"ok", "insert_failed", "connect_failed"} :
               LET marked == mark_attendance(ret.db, args.final_animal_id, outcome)
               IN  ret' = [ret EXCEPT !.pc = "log",
                                      !.db = marked.db,
                                      !.attempted = @ \o <<"mark_attendance">>]
       ELSE ret' = [ret EXCEPT !.pc = "log"]
    /\ UNCHANGED <<op, args>>

\* 7. LOG IDENTIFICATION EVENT
AnalyzeImageLog ==
    /\ op = "analyze_image"
    /\ ret.pc = "log"
    /\ IF args.primary_method # None
       THEN \E fails \in BOOLEAN :
               LET logged == log_identification_event(ret.db, args.final_animal_id, fails)
               IN  ret' = [ret EXCEPT !.pc = "respond",
                                      !.db = logged.db,
                                      !.attempted = @ \o <<"log_identification_event">>]
       ELSE ret' = [ret EXCEPT !.pc = "respond"]
    /\ UNCHANGED <<op, args>>

\* The response dict of the handler.
AnalyzeImageRespond ==
    /\ op = "analyze_image"
    /\ ret.pc = "respond"
    /\ ret' = [ret EXCEPT !.pc = "done",
                          !.response =
                              Some([animalId |-> args.final_animal_id,
                                    method |-> args.primary_method,
                                    attendanceMarked |->
                                        args.final_animal_id # "unknown"])]
    /\ UNCHANGED <<op, args>>

\* The client has the response; the server is idle again.
AnalyzeImageDone ==
    /\ op = "analyze_image"
    /\ ret.pc = "done"
    /\ op' = "none"
    /\ args' = << >>
    /\ ret' = << >>

NextAnalyzeImage ==
    \/ AnalyzeImageReceive
    \/ AnalyzeImageSave
    \/ AnalyzeImageAttendance
    \/ AnalyzeImageLog
    \/ AnalyzeImageRespond
    \/ AnalyzeImageDone

SpecAnalyzeImage == Init /\ [][NextAnalyzeImage]_vars

Responded == op = "analyze_image" /\ ret.pc = "done"

\* The database calls a request with this animal and method has to make.
StorageCallsDue ==
    <<"add_health_record">>
      \o (IF args.final_animal_id # "unknown" THEN <<"mark_attendance">> ELSE << >>)
      \o (IF args.primary_method # None THEN <<"log_identification_event">> ELSE << >>)

\* The first half of C30: whatever storage call fails, the request is
\* answered and every later storage call was still made.
StorageFailureSkipsNothing ==
    Responded => ret.response # None /\ ret.attempted = StorageCallsDue

\* C30: in the analyze_image pipeline (save health record, mark attendance,
\* log identification event) a failure of a storage step neither aborts
\* the request nor skips the later steps, and whenever the response says
\* attendanceMarked=true an attendance row for that animal and the current
\* date exists in the database.
C30_AttendanceMarkedMeansRow ==
    /\ StorageFailureSkipsNothing
    /\ (Responded /\ ret.response[1].attendanceMarked) =>
          args.final_animal_id \in ret.db.attendance

(***************************************************************************)
(* Concurrent calls on the server's singletons.                            *)
(*                                                                         *)
(* server_enhanced.py builds one HealthAnalyzer and one AnimalIdentifier   *)
(* at import.  shared is the state every call can reach: the instance      *)
(* attributes set by the constructors (body_condition_thresholds,          *)
(* qr_detection_available as copied from PYZBAR_AVAILABLE) and the state   *)
(* of numpy's global generator, which np.random.random() reads and         *)
(* advances.  args is the pair of calls in flight; ret carries shared,     *)
(* initial (shared as the calls found it), each call's pc and result.      *)
(***************************************************************************)
\* numpy's global generator, abstracted: a state, the np.std of the leg
\* metrics a call draws in that state, and the state the draws leave.
RngStates == {0, 1, 2}

rng_variation(state) == <<10, 25, 35>>[state + 1]

rng_next(state) == (state + 1) % 3

\* The pose path draws only when it has at least ten keypoints.
draws_leg_metrics(call) ==
    /\ call.operation = "comprehensive_health_assessment"
    /\ call.pose_keypoints # None
    /\ call.pose_keypoints[1] >= 10

\* One whole call, run on the shared state it finds: its result and the
\* shared state it leaves.
run_call(call, shared) ==
    IF call.operation = "comprehensive_health_assessment"
    THEN [result |-> comprehensive_health_assessment(
                         call.image, call.pose_keypoints,
                         rng_variation(shared.rng), None),
          shared |-> IF draws_leg_metrics(call)
                     THEN [shared EXCEPT !.rng = rng_next(@)]
                     ELSE shared]
    ELSE [result |-> identify_animal(
                         [call.image EXCEPT !.pyzbar_available =
                                                shared.qr_detection_available],
                         None),
          shared |-> shared]

HealthCalls ==
    { [operation |-> "comprehensive_health_assessment", image |-> image,
       pose_keypoints |-> pose_keypoints] :
        image \in { Image(ReferenceBody, NeutralGait, ClearSkin),
                    Image(NoContour, NeutralGait, DiseasedSkin) },
        pose_keypoints \in PoseKeypointCases }

IdentifyCalls ==
    { [operation |-> "identify_animal",
       image |-> [malformed |-> FALSE, pyzbar_available |-> TRUE, codes |-> codes,
                  contours |-> << >>, face |-> face, muzzle |-> TRUE]] :
        codes \in { << >>, <<"A">> }, face \in { "cascade", "orb" } }

ConcurrentStart ==
    /\ op = "none"
    /\ \E first \in HealthCalls \cup IdentifyCalls,
          second \in HealthCalls \cup IdentifyCalls,
          qr_detection_available \in BOOLEAN, rng \in RngStates :
          LET shared == [body_condition_thresholds |-> body_condition_thresholds,
                         qr_detection_available |-> qr_detection_available,
                         rng |-> rng]
          IN  /\ op' = "concurrent"
              /\ args' = <<first, second>>
              /\ ret' = [shared |-> shared, initial |-> shared,
                         pc |-> <<"ready", "ready">>,
                         results |-> <<None, None>>]

\* Call i is entered.
CallEnter(i) ==
    /\ op = "concurrent"
    /\ ret.pc[i] = "ready"
    /\ ret' = [ret EXCEPT !.pc[i] = "running"]
    /\ UNCHANGED <<op, args>>

\* Call i runs on the shared state as it is now, and returns.
CallFinish(i) ==
    /\ op = "concurrent"
    /\ ret.pc[i] = "running"
    /\ LET ran == run_call(args[i], ret.shared)
       IN  ret' = [ret EXCEPT !.pc[i] = "done",
                              !.results[i] = Some(ran.result),
                              !.shared = ran.shared]
    /\ UNCHANGED <<op, args>>

ConcurrentDone ==
    /\ op = "concurrent"
    /\ ret.pc = <<"done", "done">>
    /\ op' = "none"
    /\ args' = << >>
    /\ ret' = << >>

NextConcurrent ==
    \/ ConcurrentStart
    \/ \E i \in {1, 2} : CallEnter(i)
    \/ \E i \in {1, 2} : CallFinish(i)
    \/ ConcurrentDone

SpecConcurrent == Init /\ [][NextConcurrent]_vars

InFlight == op = "concurrent"

\* The result call i returns when it runs alone on the initial state.
AloneResult(i) == run_call(args[i], ret.initial).result

\* The attributes the constructors set are never written by a call.
InstanceAttributesKept ==
    InFlight =>
        /\ ret.shared.body_condition_thresholds = ret.initial.body_condition_thresholds
        /\ ret.shared.qr_detection_available = ret.initial.qr_detection_available

\* Calls as the server makes them (pose_keypoints=None), and any call that
\* does not draw, return what they return alone.
CallsWithoutDrawsAgree ==
    InFlight =>
        \A i \in {1, 2} :
            (ret.pc[i] = "done" /\ ~draws_leg_metrics(args[i])) =>
                ret.results[i] = Some(AloneResult(i))

\* C24: analysis calls running concurrently on the shared HealthAnalyzer
\* and AnimalIdentifier do not interfere: no analysis operation writes
\* instance or module state after construction, and under every
\* interleaving each call returns the result it returns when run alone.
C24_ConcurrentCallsDoNotInterfere ==
    InFlight =>
        /\ ret.shared = ret.initial
        /\ \A i \in {1, 2} :
              ret.pc[i] = "done" => ret.results[i] = Some(AloneResult(i))

=============================================================================
